---- MODULE Spec2Model ----
(***************************************************************************)
(* A model of the bitcoin node's block pipeline:                           *)
(*   - the initial block download (IBD): the main thread queues block      *)
(*     hashes, the BlockDownloader workers fetch, validate and persist      *)
(*     them, the main thread joins the pool and runs the retry pass;       *)
(*   - the live phase: one MessageListener per returned connection          *)
(*     downloads announced blocks, updates the UTXO index and notifies the *)
(*     wallet;                                                             *)
(*   - the UTXO index update protocol (SpecUtxo);                          *)
(*   - the header file and the header downloader (SpecHeaders).            *)
(***************************************************************************)
EXTENDS Integers, Sequences, FiniteSets, TLC

\* ------------------------------------------------------------------ bounds
\* Block hashes known to the peers: 1..NumHashes.
NumHashes == 2
\* Hashes the header run may queue on the hash channel: at most NumQueued.
NumQueued == 2
\* IBD workers (one per peer); their connections become the listeners.
NumWorkers == 2
MaxIps == 4
NumAccounts == 3
LENGTH_VERACK_MESSAGE == 3
MaxAmount == 4
\* constants::MAX_FAILED_COUNT (its value is not part of the sources).
MAX_FAILED_COUNT == 1
\* inv announcements one listener handles.
MaxInv == 1
\* Headers of the peers' chain after genesis: 1..ChainLen.
ChainLen == 4
\* constants::MAX_HEADERS_COUNT (2000 on the network), scaled down.
MAX_HEADERS_COUNT == 2
\* Calls of BlockHeaderDownloader::start (first run, retries, re-runs).
MaxRuns == 2
\* The messages a peer writes ahead of one receive loop, and the entries of
\* one inv message.
MaxWire == 2
MaxInventory == 2
\* The headers of the served header file, and the getheaders of one client.
NumStored == 4
MaxRequests == 3
\* The transactions of a block and the distinct transaction ids.
MaxTxs == 4
NumTxIds == 3

Hashes == 1..NumHashes
Workers == 1..NumWorkers
Main == 0
Threads == {Main} \cup Workers

NoFile == [state |-> "absent"]
NoBlock == [hash |-> 0]
NoHash == 0

VARIABLES
    mpc,            \* main thread: position in run_node
    queued,         \* hashes sent on the hash channel so far
    hashOpen,       \* the hash Sender is alive
    hashQ,          \* hash channel
    failedQ,        \* failure channel
    joined,         \* workers joined so far by BlockDownloaderPool::join
    rconn,          \* retry pass: index of the connection being tried
    disk,           \* blocks directory: hash -> file
    pc,             \* per thread: position in its loop
    hash,           \* per thread: the hash being processed
    blk,            \* per thread: the block bytes received
    failed_count,   \* per IBD worker: failures so far
    timeout,        \* per connection: a read timeout is set on the stream
    invs,           \* per listener: inv announcements handled
    uiNewBlock,     \* UIMessage::NewBlock sent, per block path
    liveHeaders,    \* headers appended to the header file by listeners
    applied,        \* block paths applied to the UTXO index, in order
    walletSent,     \* NewBlock(path) sent on the wallet channel, in order
    saveErr,        \* per thread: the last write_block_to_disk failed
    notfound,       \* per hash: the connections that answered notfound
    \* the UTXO index (SpecUtxo)
    urebuild,       \* new_from_block_headers: the next header to apply
    ufiles,         \* block files on disk
    uset,           \* UtxoSet.set: tx id -> its unspent outputs
    ulock,          \* holder of the Mutex<UtxoSet>, or NoHolder
    upc,            \* per listener: position in save_block
    ublock,         \* per listener: the block it saved
    utx,            \* per listener: next transaction of update's loop
    uapplied,       \* blocks whose update has completed, in order
    usnap,          \* the index as the wallet last read it
    \* the header file (SpecHeaders)
    hpc,            \* position of the node in its run
    hfile,          \* the header file: a sequence of records
    last_bh,        \* handle_download's last_bh
    hruns,          \* calls of BlockHeaderDownloader::start so far
    hblocks,        \* headers whose block file is on disk
    htail,          \* headers written by a batch shorter than the maximum
    \* the peer streams (SpecStreams)
    sphase,         \* position of run_node: "ibd", "retry", "live", "failed"
    sowner,         \* per connection: the threads holding a handle of it
    sio,            \* per connection: the threads inside a read or a write
    \* the wallet (SpecWallet)
    accounts,       \* Wallet::accounts: the addresses, the current one first
    unconfirmed,    \* per account: unconfirmed_transactions
    confirmed,      \* per account: confirmed_transactions
    wutxo,          \* per account: utxo_set
    checked_blocks, \* Wallet::checked_blocks
    wsent,          \* the UI messages sent by the last wallet step
    wop,            \* the last wallet step: <<operation, path, amount, fee>>
    wbuilt,         \* the result of the last create_unsigned_transaction
    \* one handshake (SpecHandshake)
    hs_side,        \* "outbound" (handshake) or "inbound" (server_handshake)
    hs_pc,          \* the steps of the exchange that have completed
    hs_verack,      \* the bytes read at the verack step, <<>> before it
    hs_result,      \* "idle", "running", "accepted" or "rejected"
    \* ibh_download_or_retry_connection (SpecIbh)
    ips,            \* the candidate addresses, "v4" or "v6" each
    ipc,            \* position: "idle", "loop", "run", "retry", "connect",
                    \* "returned"
    iret,           \* the result: "none", "Ok" or "FailedToConnect"
    iruns,          \* the outcome of every header run so far
    iconnects,      \* the connections made by the retries
    \* one receive loop over one peer's byte stream (SpecSession)
    rloop,          \* "none", "headers", "blocks" or "listener"
    rwire,          \* the messages the peer wrote and the loop has not reached
    raligned,       \* the next 24 bytes read are the header of Head(rwire)
    rstate,         \* "idle", "running", "Ok" or "Err"
    rin,            \* the messages the loop has read past, in order
    rout,           \* what the loop has done: pongs, getdatas, downloads
    \* client_message_handler serving getheaders (SpecServer)
    gpos,           \* the cursor of headers_file, in headers from the start
    gserved,        \* the getheaders served: locator and headers replied
    gopen,          \* the client session is being served
    \* one proof of inclusion (SpecMerkle)
    mtxs,           \* the transaction ids of the block, in block order
    mtx_id,         \* the transaction id asked for, as the hex string has it
    mproof,         \* the proof path, or <<>>
    mroot,          \* what build_merkle_root folds the path to, or <<>>
    mstep,          \* "idle", "asked", "proved", "InvalidMerkleTree", "built"
    \* one CompactSize written and read back (SpecCompactSize)
    cs_length,      \* the usize given to CompactSize::new, as 8 bytes
    cs_bytes,       \* to_bytes of the CompactSize made
    cs_read,        \* what read_varint makes of those bytes
    cs_step,        \* "idle", "new", "to_bytes" or "read_varint"
    xindex,         \* the node's UTXO index, outputs with their address
    xfiles,         \* block paths written by the listeners
    xlisten,        \* per listener: position in save_block
    xpath,          \* per listener: the path of the block being saved
    xchannel,       \* NewBlock messages queued in the wallet channel
    xpresent,       \* addresses that have an account in the wallet
    xutxo,          \* per account: its UTXO set
    xchecked,       \* the wallet's checked_blocks
    lheld,          \* per mutex: the thread holding it, or "free"
    lprog,          \* per thread: the operation it is in, or "idle"
    lidx,           \* per thread: its next step in the operation
    ljoined         \* BlockDownloaderPool::join has returned

PVars == <<mpc, queued, hashOpen, hashQ, failedQ, joined, rconn, disk, pc, hash,
           blk, failed_count, timeout, invs, uiNewBlock, liveHeaders, applied,
           walletSent, saveErr, notfound>>
UVars == <<urebuild, ufiles, uset, ulock, upc, ublock, utx, uapplied, usnap>>
HVars == <<hpc, hfile, last_bh, hruns, hblocks, htail>>
SVars == <<sphase, sowner, sio>>
WVars == <<accounts, unconfirmed, confirmed, wutxo, checked_blocks, wsent, wop,
           wbuilt>>
KVars == <<hs_side, hs_pc, hs_verack, hs_result>>
IVars == <<ips, ipc, iret, iruns, iconnects>>
RVars == <<rloop, rwire, raligned, rstate, rin, rout>>
GVars == <<gpos, gserved, gopen>>
MVars == <<mtxs, mtx_id, mproof, mroot, mstep>>
CVars == <<cs_length, cs_bytes, cs_read, cs_step>>
XVars == <<xindex, xfiles, xlisten, xpath, xchannel, xpresent, xutxo, xchecked>>
LVars == <<lheld, lprog, lidx, ljoined>>
vars == <<PVars, UVars, HVars, SVars, WVars, KVars, IVars, RVars, GVars, MVars,
          CVars,
          XVars,
          LVars>>

\* What the steps of one component leave alone.
NotPipeline == <<KVars, IVars, RVars, UVars, HVars, SVars, WVars, GVars, MVars,
    CVars,
    XVars,
    LVars>>
NotUtxo == <<KVars, IVars, RVars, PVars, HVars, SVars, WVars, GVars, MVars,
    CVars,
    XVars,
    LVars>>
NotHeaders == <<KVars, IVars, RVars, PVars, UVars, SVars, WVars, GVars, MVars,
    CVars,
    XVars,
    LVars>>
NotStreams == <<KVars, IVars, RVars, PVars, UVars, HVars, WVars, GVars, MVars,
    CVars,
    XVars,
    LVars>>
NotWallet == <<PVars, UVars, HVars, SVars, KVars, IVars, RVars, GVars, MVars,
    CVars,
    XVars,
    LVars>>
NotHandshake == <<PVars, UVars, HVars, SVars, WVars, IVars, RVars, GVars, MVars,
    CVars,
    XVars,
    LVars>>
NotIbh == <<PVars, UVars, HVars, SVars, WVars, KVars, RVars, GVars, MVars,
    CVars,
    XVars,
    LVars>>
NotSession == <<PVars, UVars, HVars, SVars, WVars, KVars, IVars, GVars, MVars,
    CVars,
    XVars,
    LVars>>
NotServer == <<PVars, UVars, HVars, SVars, WVars, KVars, IVars, RVars, MVars,
    CVars,
    XVars,
    LVars>>
NotMerkle == <<PVars, UVars, HVars, SVars, WVars, KVars, IVars, RVars, GVars,
    CVars,
    XVars,
    LVars>>
NotCompactSize == <<PVars, UVars, HVars, SVars, WVars, KVars, IVars, RVars,
    GVars, MVars,
    XVars,
    LVars>>
NotProjection == <<PVars, UVars, HVars, SVars, WVars, KVars,
    IVars, RVars, GVars, MVars, CVars,
    LVars>>
NotLocks == <<PVars, UVars, HVars, SVars, WVars, KVars,
    IVars, RVars, GVars, MVars, CVars, XVars>>

\* ------------------------------------------------------------ block model
\* A block as the validator sees it: the hash of its header, the exponent
\* byte of n_bits, whether reverse(hash) <= target for a well-formed n_bits,
\* and whether the Merkle tree of its transaction ids has the header's root.
GoodBlock(h) == [hash |-> h, exponent |-> 29, pow |-> TRUE, merkle |-> TRUE]

\* What a peer may send as the block message answering getdata(h).
BlocksFor(h) ==
    {GoodBlock(g) : g \in Hashes}
    \cup {[GoodBlock(h) EXCEPT !.pow = FALSE],
          [GoodBlock(h) EXCEPT !.merkle = FALSE],
          [GoodBlock(h) EXCEPT !.exponent = 2],
          [GoodBlock(h) EXCEPT !.exponent = 33]}

\* u8 arithmetic of the release build (the debug build panics on the
\* subtraction whenever the release build wraps).
U8(x) == x % 256
TargetIndex(k, exponent) == U8(U8(k + 256 - exponent) + 2)

\* BlockHeader::calculate_target_threshold: indexes a 32-byte array.
calculate_target_threshold(b) ==
    IF \E k \in {32, 31, 30} : TargetIndex(k, b.exponent) >= 32
    THEN "panic" ELSE "target"

validate_proof_of_work(b) ==
    IF calculate_target_threshold(b) = "panic" THEN "panic"
    ELSE IF b.pow THEN "Ok" ELSE "InvalidProofOfWork"

validate_merkle_root(b) == IF b.merkle THEN "Ok" ELSE "InvalidMerkleRoot"

validate_block_NoMerkle(b) == validate_proof_of_work(b)

validate_block(b) ==
    IF validate_proof_of_work(b) # "Ok" THEN validate_proof_of_work(b)
    ELSE validate_merkle_root(b)

\* fs::OpenOptions::create_new(true): the open fails when the path exists.
CanCreate_Truncate(h) == TRUE

CanCreate(h) == disk[h] = NoFile
Created(t) == [state |-> "created", creator |-> t]
Written(t, b) == [state |-> "written", creator |-> t, bytes |-> b]
PathExists(h) == disk[h] # NoFile

\* ------------------------------------------------------------- UTXO index
\* The blocks of the UTXO model, as their transactions: id, the outpoints
\* spent, the number of outputs.  Transaction "a" is a coinbase (the all-zero
\* tx id of its outpoint is never a key of the index).  Block 2 spends an
\* output of block 1, block 3 spends outputs of blocks 1 and 2.
UBlocks == 1..3

BlockTxs(b) ==
    CASE b = 1 -> <<[id |-> "a", ins |-> <<>>, nouts |-> 2]>>
      [] b = 2 -> <<[id |-> "b", ins |-> << <<"a", 0>> >>, nouts |-> 1],
                    [id |-> "c", ins |-> << <<"b", 0>> >>, nouts |-> 1]>>
      [] b = 3 -> <<[id |-> "d", ins |-> << <<"a", 1>>, <<"c", 0>> >>,
                     nouts |-> 1]>>

NoHolder == 0
EmptyUtxoSet == [t \in {} |-> <<>>]

\* Transaction::tx_outputs: the outputs carry their index in the transaction.
TxOutputs(tx) == [i \in 1..tx.nouts |-> i - 1]

\* Vec::remove(i).
VecRemove(v, i) == [j \in 1..(Len(v) - 1) |-> IF j < i THEN v[j] ELSE v[j + 1]]

\* HashMap::remove and HashMap::insert.
MapRemove(s, k) == [t \in DOMAIN s \ {k} |-> s[t]]
MapInsert(s, k, v) == [t \in DOMAIN s \cup {k} |-> IF t = k THEN v ELSE s[t]]

\* UtxoSet::update, one input: the first output of outpoint.tx_id whose index
\* is outpoint.index is removed, and the key with it when no output is left.
SpendInput(s, outpoint) ==
    IF outpoint[1] \notin DOMAIN s THEN s
    ELSE LET v == s[outpoint[1]]
             found == {i \in 1..Len(v) : v[i] = outpoint[2]}
         IN  IF found = {} THEN s
             ELSE LET i == CHOOSE x \in found : \A y \in found : x <= y
                      rest == VecRemove(v, i)
                  IN  IF rest = <<>> THEN MapRemove(s, outpoint[1])
                      ELSE [s EXCEPT ![outpoint[1]] = rest]

RECURSIVE SpendInputs(_, _, _)
SpendInputs(s, ins, n) ==
    IF n > Len(ins) THEN s ELSE SpendInputs(SpendInput(s, ins[n]), ins, n + 1)

\* UtxoSet::update, one transaction of the loop: the inputs, then the insert.
ApplyTx(s, tx) == MapInsert(SpendInputs(s, tx.ins, 1), tx.id, TxOutputs(tx))

RECURSIVE ApplyTxs(_, _, _)
ApplyTxs(s, txs, n) ==
    IF n > Len(txs) THEN s ELSE ApplyTxs(ApplyTx(s, txs[n]), txs, n + 1)

\* UtxoSet::update of a whole block.
update(s, b) == ApplyTxs(s, BlockTxs(b), 1)

UtxoInit ==
    /\ urebuild = 1
    /\ ufiles = {}
    /\ uset = EmptyUtxoSet
    /\ ulock = NoHolder
    /\ upc = [l \in Workers |-> "idle"]
    /\ ublock = [l \in Workers |-> 0]
    /\ utx = [l \in Workers |-> 0]
    /\ uapplied = <<>>
    /\ usnap = EmptyUtxoSet

\* ------------------------------------------------------------ header file
\* A header is its height on the peers' chain; a record of the file is a
\* header.  prev_blockhash of header h is the hash of header h - 1, and the
\* genesis header has the all-zero prev_blockhash.
Genesis == 0
Chain == 0..ChainLen
NoPrev == -1
PrevOf(h) == IF h = Genesis THEN NoPrev ELSE h - 1

\* Block timestamps are not monotonic along a chain (the protocol bounds
\* them by the median of the previous eleven only).
Timestamp(h) == IF h = 3 THEN 15 ELSE IF h = 2 THEN 30 ELSE 10 * h

\* read_timestamp: the starting date of the configuration file.
starting_date == 25

\* read_last_block_header: pos = file_size - 80 when file_size >= 80, else 0;
\* pos = 0 writes the genesis record at the end of the file and returns it.
read_last_block_header(f) ==
    LET pos == IF Len(f) >= 1 THEN Len(f) - 1 ELSE 0
    IN  IF pos = 0
        THEN [file |-> Append(f, Genesis), last |-> Genesis]
        ELSE [file |-> f, last |-> f[Len(f)]]

\* What an honest peer answers to getheaders(last): the n headers after it.
HeadersAfter(last, n) == [i \in 1..n |-> last + i]

\* receive_headers_message: a batch shorter than MAX_HEADERS_COUNT keeps only
\* the headers whose timestamp is not before last_bh's; a full batch is
\* written as it is.
RECURSIVE KeepFrom(_, _, _)
KeepFrom(batch, ts, n) ==
    IF n > Len(batch) THEN <<>>
    ELSE (IF Timestamp(batch[n]) >= ts THEN <<batch[n]>> ELSE <<>>)
             \o KeepFrom(batch, ts, n + 1)

HeadersToWrite(batch, last) ==
    IF Len(batch) < MAX_HEADERS_COUNT
    THEN KeepFrom(batch, Timestamp(last), 1)
    ELSE batch

InFile(f) == {f[i] : i \in 1..Len(f)}

HeadersInit ==
    /\ hpc = "idle"
    /\ hfile = <<>>
    /\ last_bh = Genesis
    /\ hruns = 0
    /\ hblocks = {}
    /\ htail = {}

\* ------------------------------------------------------------ peer streams
\* Connection 0 is the stream of init_connection (the header downloader);
\* connection w is the one BlockDownloader w opened.
SyncConn == 0
\* A connection accepted by start_server.
InboundConn == NumWorkers + 1
Conns == {SyncConn, InboundConn} \cup Workers

MainThread == <<"main", 0>>
WorkerThread(w) == <<"worker", w>>
ListenerThread(w) == <<"listener", w>>
\* The thread of Wallet::handle_ui_connection.
WalletThread == <<"wallet", 0>>

\* The thread start_server spawns for handle_client.
ClientThread == <<"client", 0>>

StreamThreads ==
    {MainThread, WalletThread, ClientThread}
    \cup {WorkerThread(w) : w \in Workers}
    \cup {ListenerThread(w) : w \in Workers}

StreamsInit ==
    /\ sphase = "ibd"
    /\ sowner = [c \in Conns |-> IF c = SyncConn THEN {MainThread}
                                 ELSE IF c = InboundConn THEN {}
                                 ELSE {WorkerThread(c)}]
    /\ sio = [c \in Conns |-> {}]

\* ----------------------------------------------------------- wallet model
\* An account is named by its address.  The transactions the node can
\* announce: "p" spends output 0 of "g" (account 1's) and pays 1 back to
\* account 1 and 1 to account 2; "q" pays 2 to account 3.  Values are in
\* satoshis.
Addrs == 1..NumAccounts
WPaths == 1..2
WTxIds == {"p", "q"}

WalletTx(id) ==
    IF id = "p"
    THEN [id |-> "p", ins |-> << <<"g", 0>> >>,
          outs |-> <<[addr |-> 1, value |-> 1], [addr |-> 2, value |-> 1]>>]
    ELSE [id |-> "q", ins |-> <<>>, outs |-> <<[addr |-> 3, value |-> 2]>>]

retrieve_transactions_from_block(path) ==
    IF path = 1 THEN <<WalletTx("p")>> ELSE <<WalletTx("q")>>

\* TransactionsSpentAndReceived::new.
NoTxs == [spent |-> <<>>, received |-> <<>>]
Unbuilt == [err |-> "unbuilt", inputs |-> <<>>, outputs |-> <<>>]

WalletInit ==
    /\ accounts = [i \in Addrs |-> i]
    /\ unconfirmed = [a \in Addrs |-> NoTxs]
    /\ confirmed = [a \in Addrs |-> NoTxs]
    /\ wutxo = [a \in Addrs |->
                  IF a = 1
                  THEN [t \in {"g", "h"} |->
                          IF t = "g"
                          THEN <<[index |-> 0, value |-> 2],
                                 [index |-> 1, value |-> 1]>>
                          ELSE <<[index |-> 0, value |-> 1]>>]
                  ELSE EmptyUtxoSet]
    /\ checked_blocks = {}
    /\ wsent = <<>>
    /\ wop = <<"none", 0, 0, 0>>
    /\ wbuilt = Unbuilt

\* -------------------------------------------------------- handshake model
\* Messages are LENGTH_VERACK_MESSAGE bytes long and a byte is one of three
\* values.
Bytes == 0..2
VERACK_MESSAGE == [i \in 1..LENGTH_VERACK_MESSAGE |-> i % 2]

\* The order of the exchange on either side.
HandshakeSteps(side) ==
    IF side = "outbound"
    THEN <<"send_version", "read_header", "read_payload", "send_verack",
           "read_verack">>
    ELSE <<"read_header", "read_payload", "send_version", "read_verack",
           "send_verack">>

HandshakeInit ==
    /\ hs_side = "outbound"
    /\ hs_pc = 0
    /\ hs_verack = <<>>
    /\ hs_result = "idle"

IbhInit ==
    /\ ips = <<>>
    /\ ipc = "idle"
    /\ iret = "none"
    /\ iruns = <<>>
    /\ iconnects = 0

SessionInit ==
    /\ rloop = "none"
    /\ rwire = <<>>
    /\ raligned = TRUE
    /\ rstate = "idle"
    /\ rin = <<>>
    /\ rout = <<>>

NoCompactSize == [ok |-> FALSE, variant |-> "none", n |-> <<>>]

CompactSizeInit ==
    /\ cs_length = <<>>
    /\ cs_bytes = <<>>
    /\ cs_read = NoCompactSize
    /\ cs_step = "idle"

MerkleInit ==
    /\ mtxs = <<>>
    /\ mtx_id = <<>>
    /\ mproof = <<>>
    /\ mroot = <<>>
    /\ mstep = "idle"

\* client_message_handler opens the header file before its loop.
ServerInit ==
    /\ gpos = 0
    /\ gserved = <<>>
    /\ gopen = TRUE

\* ------------------------------------------------- per-address projection
\* The node's UTXO index with the outputs' addresses: the outputs of "g" and
\* "h" pay address 1, the account the wallet is created with.
InitialIndex ==
    [t \in {"g", "h"} |->
        IF t = "g"
        THEN <<[index |-> 0, value |-> 2, addr |-> 1],
               [index |-> 1, value |-> 1, addr |-> 1]>>
        ELSE <<[index |-> 0, value |-> 1, addr |-> 1]>>]

\* UtxoSet::users_utxo_set: per key the outputs paying the address, and no
\* key for a transaction none of whose outputs pays it.
users_utxo_set(s, addr) ==
    LET mine(t) == SelectSeq(s[t], LAMBDA o : o.addr = addr)
        keys == {t \in DOMAIN s : mine(t) # <<>>}
    IN  [t \in keys |->
            [i \in 1..Len(mine(t)) |->
                [index |-> mine(t)[i].index, value |-> mine(t)[i].value]]]

\* Account::new for the account of the login: its set is the projection of
\* the index at that moment.
ProjectionInit ==
    /\ xindex = InitialIndex
    /\ xfiles = {}
    /\ xlisten = [l \in Workers |-> "idle"]
    /\ xpath = [l \in Workers |-> 1]
    /\ xchannel = <<>>
    /\ xpresent = {1}
    /\ xutxo = [a \in Addrs |->
                  IF a = 1 THEN users_utxo_set(InitialIndex, 1) ELSE EmptyUtxoSet]
    /\ xchecked = {}

\* ------------------------------------------------------------------ locks
\* The five mutexes and the threads that take them.
Mutexes == {"utxo", "wallet", "channel", "receiver", "logger"}
IbdThreads == {"ibd1", "ibd2"}
LThreads == {"listener1", "listener2", "node", "ui"} \cup IbdThreads

LocksInit ==
    /\ lheld = [m \in Mutexes |-> "free"]
    /\ lprog = [t \in LThreads |-> "idle"]
    /\ lidx = [t \in LThreads |-> 1]
    /\ ljoined = FALSE

\* ------------------------------------------------------------------- Init
Init ==
    /\ mpc = "queue"
    /\ queued = 0
    /\ hashOpen = TRUE
    /\ hashQ = <<>>
    /\ failedQ = <<>>
    /\ joined = 0
    /\ rconn = 0
    /\ disk = [h \in Hashes |-> NoFile]
    /\ pc = [t \in Threads |-> IF t = Main THEN "main" ELSE "recv"]
    /\ hash = [t \in Threads |-> NoHash]
    /\ blk = [t \in Threads |-> NoBlock]
    /\ failed_count = [t \in Threads |-> 0]
    /\ timeout = [t \in Workers |-> TRUE]
    /\ invs = [t \in Workers |-> 0]
    /\ uiNewBlock = [h \in Hashes |-> 0]
    /\ liveHeaders = <<>>
    /\ applied = <<>>
    /\ walletSent = <<>>
    /\ saveErr = [t \in Threads |-> FALSE]
    /\ notfound = [h \in Hashes |-> {}]
    /\ UtxoInit
    /\ HeadersInit
    /\ StreamsInit
    /\ WalletInit
    /\ HandshakeInit
    /\ IbhInit
    /\ SessionInit
    /\ ServerInit
    /\ MerkleInit
    /\ CompactSizeInit
    /\ ProjectionInit
    /\ LocksInit

LiveVars == <<invs, uiNewBlock, liveHeaders, applied, walletSent>>
MainVars == <<mpc, queued, hashOpen, joined, rconn>>

\* --------------------------------------------------------- IBD: main thread
\* queue_hashes: one sender.send(hash) of the completed header run.
QueueHash ==
    /\ mpc = "queue"
    /\ queued < NumQueued
    /\ queued' = queued + 1
    /\ hashQ' = Append(hashQ, queued + 1)
    /\ UNCHANGED <<mpc, hashOpen, failedQ, joined, rconn, disk, pc, hash, blk,
                   failed_count, timeout, saveErr>>
    /\ UNCHANGED LiveVars
    /\ UNCHANGED notfound
    /\ UNCHANGED NotPipeline

\* ibh_download_or_retry_connection returns Ok: the hash Sender is dropped,
\* close_channel, and the main thread goes on to join the pool.
CloseChannel ==
    /\ mpc = "queue"
    /\ hashOpen' = FALSE
    /\ mpc' = "join"
    /\ UNCHANGED <<queued, hashQ, failedQ, joined, rconn, disk, pc, hash, blk,
                   failed_count, timeout, saveErr>>
    /\ UNCHANGED LiveVars
    /\ UNCHANGED notfound
    /\ UNCHANGED NotPipeline

\* ibh_download_or_retry_connection returns FailedToConnect: run_node fails,
\* the pool (and with it the hash Sender) is dropped.
HeaderRunFails ==
    /\ mpc = "queue"
    /\ queued = 0
    /\ hashOpen' = FALSE
    /\ mpc' = "failed"
    /\ UNCHANGED <<queued, hashQ, failedQ, joined, rconn, disk, pc, hash, blk,
                   failed_count, timeout, saveErr>>
    /\ UNCHANGED LiveVars
    /\ UNCHANGED notfound
    /\ UNCHANGED NotPipeline

\* BlockDownloaderPool::join: joins the workers in order; a panicked worker
\* makes JoinHandle::join fail with FailedToJoinThread.
JoinWorker ==
    /\ mpc = "join"
    /\ joined < NumWorkers
    /\ pc[joined + 1] \in {"exited", "panicked"}
    /\ IF pc[joined + 1] = "exited"
       THEN /\ joined' = joined + 1
            /\ mpc' = IF joined + 1 = NumWorkers THEN "retry" ELSE "join"
       ELSE /\ joined' = joined
            /\ mpc' = "failed"
    /\ UNCHANGED <<queued, hashOpen, hashQ, failedQ, rconn, disk, pc, hash, blk,
                   failed_count, timeout, saveErr>>
    /\ UNCHANGED LiveVars
    /\ UNCHANGED notfound
    /\ UNCHANGED NotPipeline

\* ---------------------------------------------------------- IBD: workers
\* The loop of BlockDownloader::new after a processed hash (Some): the
\* worker goes on unless failed_count > MAX_FAILED_COUNT.
WorkerGoesOn_Ge(count) == ~(count >= MAX_FAILED_COUNT)

WorkerGoesOn(count) == ~(count > MAX_FAILED_COUNT)

\* Otherwise delete_timeout clears the read timeout and the loop breaks.
AfterHash(w, count) ==
    IF WorkerGoesOn(count)
    THEN /\ pc' = [pc EXCEPT ![w] = "recv"]
         /\ timeout' = timeout
    ELSE /\ pc' = [pc EXCEPT ![w] = "exited"]
         /\ timeout' = [timeout EXCEPT ![w] = FALSE]

\* process_hash_and_download: receiver.lock().recv(): a hash, or None once
\* the channel is closed and drained.
WorkerRecv(w) ==
    /\ pc[w] = "recv"
    /\ \/ /\ hashQ # <<>>
          /\ hash' = [hash EXCEPT ![w] = Head(hashQ)]
          /\ hashQ' = Tail(hashQ)
          /\ pc' = [pc EXCEPT ![w] = "check"]
          /\ timeout' = timeout
       \/ /\ hashQ = <<>>
          /\ ~hashOpen
          /\ pc' = [pc EXCEPT ![w] = "exited"]
          /\ timeout' = [timeout EXCEPT ![w] = FALSE]
          /\ UNCHANGED <<hash, hashQ>>
    /\ UNCHANGED <<failedQ, disk, blk, failed_count, saveErr>>
    /\ UNCHANGED MainVars
    /\ UNCHANGED LiveVars
    /\ UNCHANGED notfound
    /\ UNCHANGED NotPipeline

\* download_block: skips the download when the path already exists.
WorkerCheckPath(w) ==
    /\ pc[w] = "check"
    /\ IF PathExists(hash[w])
       THEN AfterHash(w, failed_count[w])
       ELSE /\ pc' = [pc EXCEPT ![w] = "download"]
            /\ timeout' = timeout
    /\ UNCHANGED <<hashQ, failedQ, disk, hash, blk, failed_count, saveErr>>
    /\ UNCHANGED MainVars
    /\ UNCHANGED LiveVars
    /\ UNCHANGED notfound
    /\ UNCHANGED NotPipeline

\* download_and_save, block_download: getdata is sent and messages are read
\* until a block arrives; a send error, notfound, a read timeout or a parse
\* error is the Err branch: the hash goes to the failure channel.
DownloadErrors == {"SendFailed", "NotFound", "ReadTimeout"}

WorkerDownload(w) ==
    /\ pc[w] = "download"
    /\ \/ \E b \in BlocksFor(hash[w]) :
            /\ blk' = [blk EXCEPT ![w] = b]
            /\ pc' = [pc EXCEPT ![w] = "validate"]
            /\ UNCHANGED <<failedQ, failed_count, timeout>>
            /\ notfound' = notfound
       \/ \E e \in DownloadErrors :
            /\ failed_count' = [failed_count EXCEPT ![w] = @ + 1]
            /\ failedQ' = Append(failedQ, hash[w])
            /\ AfterHash(w, failed_count[w] + 1)
            /\ blk' = blk
            /\ notfound' = IF e = "NotFound"
                            THEN [notfound EXCEPT ![hash[w]] = @ \cup {w}]
                            ELSE notfound
    /\ UNCHANGED <<hashQ, disk, hash, saveErr>>
    /\ UNCHANGED MainVars
    /\ UNCHANGED LiveVars
    /\ UNCHANGED NotPipeline

\* save_block -> validate_and_save_block: parse and validate_block; the Err
\* of save_block is printed by download_and_save, which returns Ok.
WorkerValidate(w) ==
    /\ pc[w] = "validate"
    /\ LET r == validate_block(blk[w]) IN
       IF r = "panic"
       THEN /\ pc' = [pc EXCEPT ![w] = "panicked"]
            /\ timeout' = timeout
       ELSE IF r = "Ok"
       THEN /\ pc' = [pc EXCEPT ![w] = "create"]
            /\ timeout' = timeout
       ELSE AfterHash(w, failed_count[w])
    /\ UNCHANGED <<hashQ, failedQ, disk, hash, blk, failed_count, saveErr>>
    /\ UNCHANGED MainVars
    /\ UNCHANGED LiveVars
    /\ UNCHANGED notfound
    /\ UNCHANGED NotPipeline

\* write_block_to_disk: OpenOptions::create_new(true).open(path).
WorkerCreate(w) ==
    /\ pc[w] = "create"
    /\ IF CanCreate(hash[w])
       THEN /\ disk' = [disk EXCEPT ![hash[w]] = Created(w)]
            /\ pc' = [pc EXCEPT ![w] = "write"]
            /\ saveErr' = [saveErr EXCEPT ![w] = FALSE]
            /\ timeout' = timeout
       ELSE /\ disk' = disk
            /\ saveErr' = [saveErr EXCEPT ![w] = TRUE]
            /\ AfterHash(w, failed_count[w])
    /\ UNCHANGED <<hashQ, failedQ, hash, blk, failed_count>>
    /\ UNCHANGED MainVars
    /\ UNCHANGED LiveVars
    /\ UNCHANGED notfound
    /\ UNCHANGED NotPipeline

\* write_block_to_disk: file.write_all(&block_data).
WorkerWrite(w) ==
    /\ pc[w] = "write"
    /\ disk' = [disk EXCEPT ![hash[w]] = Written(w, blk[w])]
    /\ AfterHash(w, failed_count[w])
    /\ UNCHANGED <<hashQ, failedQ, hash, blk, failed_count, saveErr>>
    /\ UNCHANGED MainVars
    /\ UNCHANGED LiveVars
    /\ UNCHANGED notfound
    /\ UNCHANGED NotPipeline

WorkerStep(w) ==
    \/ WorkerRecv(w)
    \/ WorkerCheckPath(w)
    \/ WorkerDownload(w)
    \/ WorkerValidate(w)
    \/ WorkerCreate(w)
    \/ WorkerWrite(w)

NextIBD ==
    \/ QueueHash
    \/ CloseChannel
    \/ HeaderRunFails
    \/ JoinWorker
    \/ \E w \in Workers : mpc \in {"queue", "join"} /\ WorkerStep(w)

\* ------------------------------------------------------------- retry pass
\* The streams the joined workers returned: every worker cleared its read
\* timeout before returning, so a read on a silent peer blocks for ever.
WorkerVars == <<pc, failed_count, timeout>>

\* retry_failed_blocks: failed_receiver.recv(); every Sender is gone, so an
\* empty channel ends the pass and download_headers_and_blocks returns Ok.
RetryRecv ==
    /\ mpc = "retry"
    /\ IF failedQ # <<>>
       THEN /\ hash' = [hash EXCEPT ![Main] = Head(failedQ)]
            /\ failedQ' = Tail(failedQ)
            /\ rconn' = 1
            /\ mpc' = "retry_check"
       ELSE /\ mpc' = "ibd_ok"
            /\ UNCHANGED <<hash, failedQ, rconn>>
    /\ UNCHANGED <<queued, hashOpen, hashQ, joined, disk, blk, saveErr>>
    /\ UNCHANGED WorkerVars
    /\ UNCHANGED LiveVars
    /\ UNCHANGED notfound
    /\ UNCHANGED NotPipeline

\* retry_download -> download_block on connection rconn: Path::exists.
RetryCheckPath ==
    /\ mpc = "retry_check"
    /\ mpc' = IF PathExists(hash[Main]) THEN "retry" ELSE "retry_download"
    /\ UNCHANGED <<queued, hashOpen, hashQ, failedQ, joined, rconn, disk, hash,
                   blk, saveErr>>
    /\ UNCHANGED WorkerVars
    /\ UNCHANGED LiveVars
    /\ UNCHANGED notfound
    /\ UNCHANGED NotPipeline

\* download_and_save with failed_sender = None: an Err moves retry_download
\* to the next connection, and to `false` after the last one.
RetryDownload ==
    /\ mpc = "retry_download"
    /\ \/ \E b \in BlocksFor(hash[Main]) :
            /\ blk' = [blk EXCEPT ![Main] = b]
            /\ mpc' = "retry_validate"
            /\ UNCHANGED <<rconn, notfound>>
       \/ \E e \in {"SendFailed", "NotFound"} :
            /\ blk' = blk
            /\ notfound' = IF e = "NotFound"
                            THEN [notfound EXCEPT ![hash[Main]] = @ \cup {rconn}]
                            ELSE notfound
            /\ IF rconn < NumWorkers
               THEN mpc' = "retry_check" /\ rconn' = rconn + 1
               ELSE mpc' = "failed" /\ rconn' = rconn
       \/ /\ ~timeout[rconn]
          /\ mpc' = "hung"
          /\ UNCHANGED <<blk, rconn, notfound>>
    /\ UNCHANGED <<queued, hashOpen, hashQ, failedQ, joined, disk, hash, saveErr>>
    /\ UNCHANGED WorkerVars
    /\ UNCHANGED LiveVars
    /\ UNCHANGED NotPipeline

\* save_block in the retry pass: a rejected block still counts as success.
RetryValidate ==
    /\ mpc = "retry_validate"
    /\ LET r == validate_block(blk[Main]) IN
       mpc' = IF r = "panic" THEN "panicked"
              ELSE IF r = "Ok" THEN "retry_create" ELSE "retry"
    /\ UNCHANGED <<queued, hashOpen, hashQ, failedQ, joined, rconn, disk, hash,
                   blk, saveErr>>
    /\ UNCHANGED WorkerVars
    /\ UNCHANGED LiveVars
    /\ UNCHANGED notfound
    /\ UNCHANGED NotPipeline

RetryCreate ==
    /\ mpc = "retry_create"
    /\ IF CanCreate(hash[Main])
       THEN /\ disk' = [disk EXCEPT ![hash[Main]] = Created(Main)]
            /\ saveErr' = [saveErr EXCEPT ![Main] = FALSE]
            /\ mpc' = "retry_write"
       ELSE /\ disk' = disk
            /\ saveErr' = [saveErr EXCEPT ![Main] = TRUE]
            /\ mpc' = "retry"
    /\ UNCHANGED <<queued, hashOpen, hashQ, failedQ, joined, rconn, hash, blk>>
    /\ UNCHANGED WorkerVars
    /\ UNCHANGED LiveVars
    /\ UNCHANGED notfound
    /\ UNCHANGED NotPipeline

RetryWrite ==
    /\ mpc = "retry_write"
    /\ disk' = [disk EXCEPT ![hash[Main]] = Written(Main, blk[Main])]
    /\ mpc' = "retry"
    /\ UNCHANGED <<queued, hashOpen, hashQ, failedQ, joined, rconn, hash, blk,
                   saveErr>>
    /\ UNCHANGED WorkerVars
    /\ UNCHANGED LiveVars
    /\ UNCHANGED notfound
    /\ UNCHANGED NotPipeline

NextRetry ==
    \/ RetryRecv
    \/ RetryCheckPath
    \/ RetryDownload
    \/ RetryValidate
    \/ RetryCreate
    \/ RetryWrite

\* ------------------------------------------------------------- live phase
\* broadcast: MessageListenerPool::new spawns one MessageListener per
\* returned connection; the locals of the IBD phase no longer exist.
StartLive ==
    /\ mpc = "ibd_ok"
    /\ mpc' = "live"
    /\ pc' = [t \in Threads |-> IF t = Main THEN "main" ELSE "listen"]
    /\ hash' = [t \in Threads |-> NoHash]
    /\ blk' = [t \in Threads |-> NoBlock]
    /\ failed_count' = [t \in Threads |-> 0]
    /\ saveErr' = [t \in Threads |-> FALSE]
    /\ hashQ' = <<>>
    /\ UNCHANGED <<queued, hashOpen, failedQ, joined, rconn, disk, timeout>>
    /\ UNCHANGED LiveVars
    /\ UNCHANGED notfound
    /\ UNCHANGED NotPipeline

IBDVars == <<mpc, queued, hashOpen, hashQ, failedQ, joined, rconn,
             failed_count, timeout, notfound>>

\* broadcasting_start: reads until an inv announces a block (the first
\* MSG_BLOCK entry), or the read fails and the listener leaves its loop.
ListenInv(l) ==
    /\ pc[l] = "listen"
    /\ \/ /\ invs[l] < MaxInv
          /\ \E h \in Hashes :
               /\ hash' = [hash EXCEPT ![l] = h]
               /\ invs' = [invs EXCEPT ![l] = @ + 1]
               /\ pc' = [pc EXCEPT ![l] = "lcheck"]
       \/ /\ pc' = [pc EXCEPT ![l] = "lexited"]
          /\ UNCHANGED <<hash, invs>>
    /\ UNCHANGED <<disk, blk, saveErr, uiNewBlock, liveHeaders, applied,
                   walletSent>>
    /\ UNCHANGED IBDVars
    /\ UNCHANGED NotPipeline

\* MessageListener::download_block: Path::exists.
ListenCheckPath(l) ==
    /\ pc[l] = "lcheck"
    /\ pc' = [pc EXCEPT ![l] = IF PathExists(hash[l]) THEN "listen"
                                ELSE "ldownload"]
    /\ UNCHANGED <<disk, hash, blk, saveErr>>
    /\ UNCHANGED LiveVars
    /\ UNCHANGED IBDVars
    /\ UNCHANGED NotPipeline

\* MessageListener::download_and_save: block_download; an Err is printed.
ListenDownload(l) ==
    /\ pc[l] = "ldownload"
    /\ \/ \E b \in BlocksFor(hash[l]) :
            /\ blk' = [blk EXCEPT ![l] = b]
            /\ pc' = [pc EXCEPT ![l] = "lvalidate"]
       \/ \E e \in {"SendFailed", "NotFound"} :
            /\ blk' = blk
            /\ pc' = [pc EXCEPT ![l] = "listen"]
    /\ UNCHANGED <<disk, hash, saveErr>>
    /\ UNCHANGED LiveVars
    /\ UNCHANGED IBDVars
    /\ UNCHANGED NotPipeline

\* validate_and_save_block_listener: validate_block, and on Ok the
\* UIMessage::NewBlock is sent before the file is created.
ListenValidate(l) ==
    /\ pc[l] = "lvalidate"
    /\ LET r == validate_block(blk[l]) IN
       IF r = "Ok"
       THEN /\ uiNewBlock' = [uiNewBlock EXCEPT ![hash[l]] = @ + 1]
            /\ pc' = [pc EXCEPT ![l] = "lcreate"]
       ELSE /\ uiNewBlock' = uiNewBlock
            /\ pc' = [pc EXCEPT ![l] = IF r = "panic" THEN "panicked"
                                        ELSE "listen"]
    /\ UNCHANGED <<disk, hash, blk, saveErr, invs, liveHeaders, applied,
                   walletSent>>
    /\ UNCHANGED IBDVars
    /\ UNCHANGED NotPipeline

\* MessageListener::save_block: `validate_and_save_block_listener(..)?`
\* returns the Err of a save that failed, before the UTXO set and the wallet
\* channel are touched.
save_block_IgnoresErr(created) == IF created THEN "lwrite" ELSE "lupdate"
save_block(created) == IF created THEN "lwrite" ELSE "listen"

\* write_block_to_disk in the listener: create_new; the Err ends save_block.
ListenCreate(l) ==
    /\ pc[l] = "lcreate"
    /\ IF CanCreate(hash[l])
       THEN /\ disk' = [disk EXCEPT ![hash[l]] = Created(l)]
            /\ saveErr' = [saveErr EXCEPT ![l] = FALSE]
            /\ pc' = [pc EXCEPT ![l] = save_block(TRUE)]
       ELSE /\ disk' = disk
            /\ saveErr' = [saveErr EXCEPT ![l] = TRUE]
            /\ pc' = [pc EXCEPT ![l] = save_block(FALSE)]
    /\ UNCHANGED <<hash, blk>>
    /\ UNCHANGED LiveVars
    /\ UNCHANGED IBDVars
    /\ UNCHANGED NotPipeline

ListenWrite(l) ==
    /\ pc[l] = "lwrite"
    /\ disk' = [disk EXCEPT ![hash[l]] = Written(l, blk[l])]
    /\ pc' = [pc EXCEPT ![l] = "lheader"]
    /\ UNCHANGED <<hash, blk, saveErr>>
    /\ UNCHANGED LiveVars
    /\ UNCHANGED IBDVars
    /\ UNCHANGED NotPipeline

\* write_block_header_to_file: the block's header is appended to the
\* header file.
ListenWriteHeader(l) ==
    /\ pc[l] = "lheader"
    /\ liveHeaders' = Append(liveHeaders, blk[l].hash)
    /\ pc' = [pc EXCEPT ![l] = "lupdate"]
    /\ UNCHANGED <<disk, hash, blk, saveErr, invs, uiNewBlock, applied,
                   walletSent>>
    /\ UNCHANGED IBDVars
    /\ UNCHANGED NotPipeline

\* MessageListener::save_block: utxo_set.lock().update(&path); the guard is
\* dropped at the end of the statement.
ListenUpdateUtxo(l) ==
    /\ pc[l] = "lupdate"
    /\ applied' = Append(applied, hash[l])
    /\ pc' = [pc EXCEPT ![l] = "lnotify"]
    /\ UNCHANGED <<disk, hash, blk, saveErr, invs, uiNewBlock, liveHeaders,
                   walletSent>>
    /\ UNCHANGED IBDVars
    /\ UNCHANGED NotPipeline

\* MessageListener::save_block: wallet_channel.lock().send(NewBlock(path)).
ListenNotifyWallet(l) ==
    /\ pc[l] = "lnotify"
    /\ walletSent' = Append(walletSent, hash[l])
    /\ pc' = [pc EXCEPT ![l] = "listen"]
    /\ UNCHANGED <<disk, hash, blk, saveErr, invs, uiNewBlock, liveHeaders,
                   applied>>
    /\ UNCHANGED IBDVars
    /\ UNCHANGED NotPipeline

ListenerStep(l) ==
    \/ ListenInv(l)
    \/ ListenCheckPath(l)
    \/ ListenDownload(l)
    \/ ListenValidate(l)
    \/ ListenCreate(l)
    \/ ListenWrite(l)
    \/ ListenWriteHeader(l)
    \/ ListenUpdateUtxo(l)
    \/ ListenNotifyWallet(l)

Next ==
    \/ NextIBD
    \/ NextRetry
    \/ StartLive
    \/ \E l \in Workers : mpc = "live" /\ ListenerStep(l)

Spec == Init /\ [][Next]_vars

\* ------------------------------------------------------ UTXO index: steps
\* UtxoSet::new_from_block_headers: the headers in order; a header whose
\* block file is missing is skipped.
RebuildStep ==
    /\ urebuild \in UBlocks
    /\ \E present \in BOOLEAN :
         IF present
         THEN /\ ufiles' = ufiles \cup {urebuild}
              /\ uset' = update(uset, urebuild)
              /\ uapplied' = Append(uapplied, urebuild)
         ELSE UNCHANGED <<ufiles, uset, uapplied>>
    /\ urebuild' = urebuild + 1
    /\ UNCHANGED <<ulock, upc, ublock, utx, usnap>>
    /\ UNCHANGED NotUtxo

Rebuilt == urebuild \notin UBlocks

\* MessageListener::save_block: validate_and_save_block_listener created the
\* file of an announced block that was not on disk.
SaveAnnounced(l) ==
    /\ Rebuilt
    /\ upc[l] = "idle"
    /\ \E b \in UBlocks \ ufiles :
         /\ ufiles' = ufiles \cup {b}
         /\ ublock' = [ublock EXCEPT ![l] = b]
    /\ upc' = [upc EXCEPT ![l] = "saved"]
    /\ UNCHANGED <<urebuild, uset, ulock, utx, uapplied, usnap>>
    /\ UNCHANGED NotUtxo

\* utxo_set.lock(), and update reads the transactions of the block file.
LockUtxo(l) ==
    /\ upc[l] = "saved"
    /\ ulock = NoHolder
    /\ ulock' = l
    /\ utx' = [utx EXCEPT ![l] = 1]
    /\ upc' = [upc EXCEPT ![l] = "updating"]
    /\ UNCHANGED <<urebuild, ufiles, uset, ublock, uapplied, usnap>>
    /\ UNCHANGED NotUtxo

\* One pass of update's loop over the transactions.
UpdateTx(l) ==
    /\ upc[l] = "updating"
    /\ utx[l] <= Len(BlockTxs(ublock[l]))
    /\ uset' = ApplyTx(uset, BlockTxs(ublock[l])[utx[l]])
    /\ utx' = [utx EXCEPT ![l] = @ + 1]
    /\ UNCHANGED <<urebuild, ufiles, ulock, upc, ublock, uapplied, usnap>>
    /\ UNCHANGED NotUtxo

\* update returns and the MutexGuard is dropped.
UnlockUtxo(l) ==
    /\ upc[l] = "updating"
    /\ utx[l] > Len(BlockTxs(ublock[l]))
    /\ ulock' = NoHolder
    /\ uapplied' = Append(uapplied, ublock[l])
    /\ upc' = [upc EXCEPT ![l] = "idle"]
    /\ UNCHANGED <<urebuild, ufiles, uset, ublock, utx, usnap>>
    /\ UNCHANGED NotUtxo

\* Wallet::add_account_to_wallet: utxo_set_arc.lock() before the index is
\* read.
ReaderMayRead_NoLock == TRUE

ReaderMayRead == ulock = NoHolder

WalletRead ==
    /\ Rebuilt
    /\ ReaderMayRead
    /\ usnap' = uset
    /\ UNCHANGED <<urebuild, ufiles, uset, ulock, upc, ublock, utx, uapplied>>
    /\ UNCHANGED NotUtxo

NextUtxo ==
    \/ RebuildStep
    \/ \E l \in Workers : SaveAnnounced(l)
    \/ \E l \in Workers : LockUtxo(l)
    \/ \E l \in Workers : UpdateTx(l)
    \/ \E l \in Workers : UnlockUtxo(l)
    \/ WalletRead

SpecUtxo == Init /\ [][NextUtxo]_vars


\* ------------------------------------------------------ header file: steps
\* BlockHeaderDownloader::start: read_last_block_header, then getheaders.
StartHeaderRun ==
    /\ hpc = "idle"
    /\ hruns < MaxRuns
    /\ LET r == read_last_block_header(hfile) IN
         /\ hfile' = r.file
         /\ last_bh' = r.last
    /\ hruns' = hruns + 1
    /\ hpc' = "wait"
    /\ UNCHANGED hblocks
    /\ UNCHANGED htail
    /\ UNCHANGED NotHeaders

\* handle_download: receive_headers_message(..)? == MAX_HEADERS_COUNT.
BatchIsFull_Never(n) == FALSE

BatchIsFull(n) == n = MAX_HEADERS_COUNT

\* handle_download, a headers message: receive_headers_message writes the
\* batch; a full batch is followed by read_last_block_header and the next
\* getheaders, any other one ends the run.  The count is the peer's: the
\* downloader reads as many headers as the message announces.
ReceiveHeaders ==
    /\ hpc = "wait"
    /\ \E n \in 0..(MAX_HEADERS_COUNT + 1) :
         /\ last_bh + n <= ChainLen
         /\ LET batch == HeadersAfter(last_bh, n)
                written == hfile \o HeadersToWrite(batch, last_bh)
            IN  IF BatchIsFull(n)
                THEN /\ hfile' = read_last_block_header(written).file
                     /\ last_bh' = read_last_block_header(written).last
                     /\ hpc' = "wait"
                     /\ htail' = htail
                ELSE /\ hfile' = written
                     /\ last_bh' = last_bh
                     /\ hpc' = "ibd"
                     /\ htail' = IF n < MAX_HEADERS_COUNT
                                 THEN htail \cup InFile(HeadersToWrite(batch, last_bh))
                                 ELSE htail
    /\ UNCHANGED <<hruns, hblocks>>
    /\ UNCHANGED NotHeaders

\* handle_download fails (the read or the send returns Err): start returns
\* Err and ibh_download_or_retry_connection moves to the next address.
HeaderRunError ==
    /\ hpc = "wait"
    /\ hpc' = "idle"
    /\ UNCHANGED <<hfile, last_bh, hruns, hblocks>>
    /\ UNCHANGED htail
    /\ UNCHANGED NotHeaders

\* The block download that follows the header run: the blocks of some of
\* the stored headers are on disk when it ends.
BlocksDownloaded ==
    /\ hpc = "ibd"
    /\ \E S \in SUBSET (InFile(hfile) \ {Genesis}) : hblocks' = hblocks \cup S
    /\ hpc' = "live"
    /\ UNCHANGED <<hfile, last_bh, hruns>>
    /\ UNCHANGED htail
    /\ UNCHANGED NotHeaders

\* validate_and_save_block_listener: write_block_header_to_file appends the
\* header of an announced block that was saved.
ListenerAppendsHeader ==
    /\ hpc = "live"
    /\ \E h \in (Chain \ {Genesis}) \ hblocks :
         /\ hblocks' = hblocks \cup {h}
         /\ hfile' = Append(hfile, h)
    /\ UNCHANGED <<hpc, last_bh, hruns>>
    /\ UNCHANGED htail
    /\ UNCHANGED NotHeaders

\* The node is run again on the same header file.
Rerun ==
    /\ hpc = "live"
    /\ hruns < MaxRuns
    /\ hpc' = "idle"
    /\ UNCHANGED <<hfile, last_bh, hruns, hblocks>>
    /\ UNCHANGED htail
    /\ UNCHANGED NotHeaders

NextHeaders ==
    \/ StartHeaderRun
    \/ ReceiveHeaders
    \/ HeaderRunError
    \/ BlocksDownloaded
    \/ ListenerAppendsHeader
    \/ Rerun

SpecHeaders == Init /\ [][NextHeaders]_vars

\* ------------------------------------------------------ peer streams: steps
InIO(t) == \E c \in Conns : \E op \in {"read", "write"} : <<t, op>> \in sio[c]

\* When a thread that holds a handle reads or writes: the main thread runs
\* the header download on the sync stream and the retry pass on the
\* returned streams, and waits in join during the live phase; the wallet
\* only sends (broadcast_transaction).
MayUse(t, c, op) ==
    /\ t \in sowner[c]
    /\ t = MainThread =>
         \/ sphase = "ibd" /\ c = SyncConn
         \/ sphase = "retry" /\ c # SyncConn
    /\ t = WalletThread => op = "write"

\* A read or a write on the stream starts (send_message, Header::new,
\* receive_message, TxMessage::send_tx_message).
BeginIO(t, c, op) ==
    /\ MayUse(t, c, op)
    /\ ~InIO(t)
    /\ sio' = [sio EXCEPT ![c] = @ \cup {<<t, op>>}]
    /\ UNCHANGED <<sphase, sowner>>
    /\ UNCHANGED NotStreams

EndIO(t, c, op) ==
    /\ <<t, op>> \in sio[c]
    /\ sio' = [sio EXCEPT ![c] = @ \ {<<t, op>>}]
    /\ UNCHANGED <<sphase, sowner>>
    /\ UNCHANGED NotStreams

\* BlockDownloader::new returns its stream and BlockDownloader::join hands
\* it to the main thread.
WorkerReturnsStream(w) ==
    /\ sphase = "ibd"
    /\ WorkerThread(w) \in sowner[w]
    /\ ~InIO(WorkerThread(w))
    /\ sowner' = [sowner EXCEPT ![w] = {MainThread}]
    /\ UNCHANGED <<sphase, sio>>
    /\ UNCHANGED NotStreams

\* BlockDownloaderPool::join has every stream; the header run is over.
PoolJoined ==
    /\ sphase = "ibd"
    /\ \A w \in Workers : sowner[w] = {MainThread}
    /\ ~InIO(MainThread)
    /\ sphase' = "retry"
    /\ UNCHANGED <<sowner, sio>>
    /\ UNCHANGED NotStreams

\* broadcast: find_one_active_peer clones the first connected stream for the
\* wallet, MessageListenerPool::new clones every connected stream for a
\* listener.
FirstConnected(K) == CHOOSE c \in K : \A d \in K : c <= d

StartListeners ==
    /\ sphase = "retry"
    /\ ~InIO(MainThread)
    /\ \E K \in SUBSET Workers :
         IF K = {}
         THEN /\ sphase' = "failed"
              /\ sowner' = sowner
         ELSE /\ sphase' = "live"
              /\ sowner' = [c \in Conns |->
                    sowner[c]
                    \cup (IF c \in K THEN {ListenerThread(c)} ELSE {})
                    \cup (IF c \in K /\ c = FirstConnected(K)
                          THEN {WalletThread} ELSE {})]
    /\ sio' = sio
    /\ UNCHANGED NotStreams

\* MessageListener::new: a failed read ends the listener's loop and the
\* thread returns its clone.
ListenerReturnsStream(l) ==
    /\ sphase = "live"
    /\ ListenerThread(l) \in sowner[l]
    /\ ~InIO(ListenerThread(l))
    /\ sowner' = [sowner EXCEPT ![l] = @ \ {ListenerThread(l)}]
    /\ UNCHANGED <<sphase, sio>>
    /\ UNCHANGED NotStreams

\* start_server: listener.incoming() yields a stream and handle_client runs
\* on it in a thread of its own (run_server is called after the IBD).
AcceptInbound ==
    /\ sphase = "live"
    /\ sowner[InboundConn] = {}
    /\ sowner' = [sowner EXCEPT ![InboundConn] = {ClientThread}]
    /\ UNCHANGED <<sphase, sio>>
    /\ UNCHANGED NotStreams

NextStreams ==
    \/ AcceptInbound
    \/ \E t \in StreamThreads : \E c \in Conns : \E op \in {"read", "write"} :
         BeginIO(t, c, op)
    \/ \E t \in StreamThreads : \E c \in Conns : \E op \in {"read", "write"} :
         EndIO(t, c, op)
    \/ \E w \in Workers : WorkerReturnsStream(w)
    \/ PoolJoined
    \/ StartListeners
    \/ \E l \in Workers : ListenerReturnsStream(l)

SpecStreams == Init /\ [][NextStreams]_vars

\* ------------------------------------------------------------ properties
\* Thread t is about to open the block file, and the step is t's.
AtCreate(t) ==
    IF t = Main THEN mpc = "retry_create" ELSE pc[t] \in {"create", "lcreate"}

Moves(t) == IF t = Main THEN mpc' # mpc ELSE pc'[t] # pc[t]

Rejections == {"InvalidProofOfWork", "InvalidMerkleRoot"}

\* C1: at most one saver creates blocks/<hash>.bin: once the file exists it
\* stays, its creator never changes, its written bytes are never rewritten,
\* and a save attempt on an existing path fails and leaves the disk as it is.
C1_SingleCreator ==
    [][/\ \A h \in Hashes :
            /\ disk[h] # NoFile =>
                   disk'[h] # NoFile /\ disk'[h].creator = disk[h].creator
            /\ disk[h].state = "written" => disk'[h] = disk[h]
        /\ \A t \in Threads :
            (AtCreate(t) /\ Moves(t) /\ PathExists(hash[t])) =>
                (disk' = disk /\ saveErr'[t])]_vars

\* Two listeners raced for one path: the loser's open failed and the file
\* holds the winner's bytes.
C1_Witness ==
    \E t \in Workers : \E h \in Hashes :
        /\ hash[t] = h
        /\ saveErr[t]
        /\ disk[h].state = "written"
        /\ disk[h].creator # t

\* C2: on every persisting path (IBD worker, retry pass, listener) a block
\* that fails the proof-of-work or the Merkle-root check is never written:
\* every thread that opens or writes a block file holds a validated block,
\* and every file's bytes are a validated block.
MeetsTargetAndRoot(b) == b.pow /\ b.merkle

C2_OnlyValidBlocksWritten ==
    /\ \A h \in Hashes :
         disk[h].state = "written" => MeetsTargetAndRoot(disk[h].bytes)
    /\ \A t \in Workers :
         pc[t] \in {"create", "write", "lcreate", "lwrite", "lheader"} =>
             MeetsTargetAndRoot(blk[t])
    /\ mpc \in {"retry_create", "retry_write"} => MeetsTargetAndRoot(blk[Main])

\* A listener received a block with a wrong Merkle root: it is back in its
\* loop and the path was not created.
C2_Witness ==
    \E t \in Workers :
        /\ mpc = "live"
        /\ pc[t] = "listen"
        /\ blk[t] # NoBlock
        /\ ~blk[t].merkle
        /\ disk[hash[t]] = NoFile

\* C3: in the IBD worker loop every failed step (getdata send, receive,
\* validate_and_save_block rejecting the block) sends the hash on the
\* failure channel and adds one to the worker's failure counter.
C3_EveryFailureReported ==
    [][\A w \in Workers :
         (/\ mpc \in {"queue", "join"}
          /\ pc[w] = "validate"
          /\ validate_block(blk[w]) \in Rejections
          /\ pc'[w] # pc[w]) =>
             (/\ failedQ' = Append(failedQ, hash[w])
              /\ failed_count'[w] = failed_count[w] + 1)]_vars

\* C4: when download_headers_and_blocks returns Ok, every queued hash has
\* its block file, unless all workers died or every surviving peer lacks
\* the block.
AllWorkersDied == \A w \in Workers : failed_count[w] > MAX_FAILED_COUNT

AllSurvivingPeersLack(h) == \A w \in Workers : w \in notfound[h]

C4_EveryQueuedBlockOnDisk ==
    mpc = "ibd_ok" =>
        \A h \in 1..queued :
            PathExists(h) \/ AllWorkersDied \/ AllSurvivingPeersLack(h)

\* C7: the wallet receives NewBlock(path) in the order in which the listener
\* pool applied the blocks to the UTXO index.
C7_WalletOrderIsApplyOrder ==
    walletSent = SubSeq(applied, 1, Len(walletSent))

\* C9: once the hash channel is closed every IBD worker exits returning its
\* peer, the join ends and the retry pass ends, whatever the peers send: no
\* worker thread is lost without returning its stream, and the retry pass
\* is never stopped by a panic or blocked for ever on a read.
C9_WorkersAndRetryEnd ==
    /\ mpc \in {"queue", "join", "failed"} =>
           \A w \in Workers : pc[w] # "panicked"
    /\ mpc \notin {"hung", "panicked"}

RECURSIVE ApplyAll(_, _)
ApplyAll(blocks, n) ==
    IF n = 0 THEN EmptyUtxoSet ELSE update(ApplyAll(blocks, n - 1), blocks[n])

Unspent(s, outpoint) ==
    /\ outpoint[1] \in DOMAIN s
    /\ \E i \in 1..Len(s[outpoint[1]]) : s[outpoint[1]][i] = outpoint[2]

InputsOf(b) ==
    {BlockTxs(b)[k].ins[j] :
        <<k, j>> \in {x \in (1..2) \X (1..2) :
                        /\ x[1] <= Len(BlockTxs(b))
                        /\ x[2] <= Len(BlockTxs(b)[x[1]].ins)}}

\* C5: after any sequence of block applications (the startup rebuild, then
\* the listeners' applies in whatever order) no output spent by an input of
\* an applied block remains in the UTXO index.
C5_SpentOutputsGone ==
    ulock = NoHolder =>
        \A i \in 1..Len(uapplied) :
            \A o \in InputsOf(uapplied[i]) : ~Unspent(uset, o)

\* C6: every block-apply is atomic: between applies the index is the result
\* of applying the blocks one after the other in the order the applies
\* completed, and what a reader saw is the index after a prefix of them.
C6_AppliesAreAtomic ==
    /\ ulock = NoHolder => uset = ApplyAll(uapplied, Len(uapplied))
    /\ \E k \in 0..Len(uapplied) : usnap = ApplyAll(uapplied, k)

\* A listener is between two transactions of block 2 while the other waits
\* for the lock, and the wallet has read the index after block 1.
C6_Witness ==
    \E l1, l2 \in Workers :
        /\ upc[l1] = "updating" /\ ublock[l1] = 2 /\ utx[l1] = 2
        /\ upc[l2] = "saved"
        /\ uset # ApplyAll(uapplied, Len(uapplied))
        /\ usnap # EmptyUtxoSet

\* ---------------------------------------------------- header file properties
\* C8: the header file starts with the genesis record and every record's
\* prev_blockhash is the hash of the record before it.
C8_HeaderFileIsAChain ==
    /\ hfile # <<>> => hfile[1] = Genesis
    /\ \A i \in 2..Len(hfile) : PrevOf(hfile[i]) = hfile[i - 1]

\* ---------------------------------------------------- peer stream properties
\* C11: peer streams are never shared: at any time at most one thread reads
\* from or writes to a given peer connection.
C11_StreamsNeverShared ==
    \A c \in Conns : Cardinality(sio[c]) <= 1


\* C12: the listener never writes to the header file: no step of a listener
\* appends a record to it.
C12_ListenerLeavesHeaderFile ==
    liveHeaders = <<>>


\* C13: a headers batch of exactly MAX_HEADERS_COUNT headers is appended
\* whole and is followed by a getheaders whose locator is the header now
\* last in the file; a shorter batch ends the header download.
C13_FullBatchContinues ==
    [][/\ (hpc = "wait" /\ hpc' = "wait" /\ hfile' # hfile) =>
             /\ hfile' = hfile \o HeadersAfter(last_bh, MAX_HEADERS_COUNT)
             /\ last_bh' = hfile'[Len(hfile')]
       /\ (hpc = "wait" /\ hpc' = "ibd") =>
             Len(hfile') - Len(hfile) # MAX_HEADERS_COUNT]_vars

\* A full batch was stored and the next getheaders names the last record.
C13_Witness ==
    /\ hpc = "wait"
    /\ Len(hfile) > MAX_HEADERS_COUNT
    /\ last_bh = hfile[Len(hfile)]
    /\ last_bh # Genesis


\* C14: no header with timestamp < starting_date is written to the header
\* file by the tail batch (the final batch, shorter than the maximum).
C14_TailBatchFromStartingDate ==
    \A h \in htail : Timestamp(h) >= starting_date


\* ----------------------------------------------------------- wallet steps
\* Every handler of handle_node_connection and handle_ui_connection runs
\* with the wallet locked, so each is one step.

RECURSIVE sum_of_outs(_)
sum_of_outs(outs) ==
    IF outs = <<>> THEN 0 ELSE outs[1].value + sum_of_outs(Tail(outs))

\* Iterator::position: the first index holding x, 0 for None.
PositionOf(list, x) ==
    IF \E i \in 1..Len(list) : list[i] = x
    THEN CHOOSE i \in 1..Len(list) :
             list[i] = x /\ \A j \in 1..(i - 1) : list[j] # x
    ELSE 0

\* TransactionsSpentAndReceived::contains.
contains(txs, id) == PositionOf(txs.spent, id) > 0 \/ PositionOf(txs.received, id) > 0

all_txs_SpentOnly(txs) == txs.spent
all_txs(txs) == txs.spent \o txs.received

\* Account::update_transactions_if_confirmed over the transactions of the
\* block, from the n-th on; st holds the account's two lists and the list
\* bound for the UI.
RECURSIVE update_transactions_if_confirmed(_, _, _)
update_transactions_if_confirmed(st, txs, n) ==
    IF n > Len(txs) THEN st
    ELSE LET id == txs[n].id
             s == PositionOf(st.unc.spent, id)
             r == PositionOf(st.unc.received, id)
             next ==
                 IF s > 0
                 THEN [unc |-> [st.unc EXCEPT !.spent = VecRemove(@, s)],
                       conf |-> [st.conf EXCEPT !.spent = Append(@, id)],
                       ui |-> [st.ui EXCEPT !.spent = Append(@, id)]]
                 ELSE IF r > 0
                 THEN [unc |-> [st.unc EXCEPT !.received = VecRemove(@, r)],
                       conf |-> [st.conf EXCEPT !.received = Append(@, id)],
                       ui |-> [st.ui EXCEPT !.received = Append(@, id)]]
                 ELSE st
         IN  update_transactions_if_confirmed(next, txs, n + 1)

\* Account::confirm_transactions.
confirm_transactions(a, path) ==
    update_transactions_if_confirmed(
        [unc |-> unconfirmed[a], conf |-> confirmed[a], ui |-> NoTxs],
        retrieve_transactions_from_block(path), 1)

\* send_confirmations_to_ui.
send_confirmations_to_ui(ui) ==
    [i \in 1..Len(all_txs(ui)) |-> <<"Notification", all_txs(ui)[i]>>]

\* Wallet::confirm_transactions, the messages of the accounts from the i-th
\* on: each account's notifications, and NewTransactionsConfirmed for the
\* current account.
RECURSIVE ConfirmMessages(_, _)
ConfirmMessages(path, i) ==
    IF i > Len(accounts) THEN <<>>
    ELSE send_confirmations_to_ui(confirm_transactions(accounts[i], path).ui)
         \o (IF i = 1 THEN << <<"NewTransactionsConfirmed", "">> >> ELSE <<>>)
         \o ConfirmMessages(path, i + 1)

\* UtxoSet::update_for_account, one input.
SpendForAccount(s, outpoint) ==
    IF outpoint[1] \notin DOMAIN s THEN s
    ELSE LET v == s[outpoint[1]]
             found == {i \in 1..Len(v) : v[i].index = outpoint[2]}
         IN  IF found = {} THEN s
             ELSE LET i == CHOOSE x \in found : \A y \in found : x <= y
                      rest == VecRemove(v, i)
                  IN  IF rest = <<>> THEN MapRemove(s, outpoint[1])
                      ELSE [s EXCEPT ![outpoint[1]] = rest]

RECURSIVE SpendAllForAccount(_, _, _)
SpendAllForAccount(s, ins, n) ==
    IF n > Len(ins) THEN s
    ELSE SpendAllForAccount(SpendForAccount(s, ins[n]), ins, n + 1)

\* UtxoSet::insert_for_account: the outputs paying the address are pushed
\* onto the entry of the transaction.
insert_for_account(s, tx, addr) ==
    LET outs == [i \in 1..Len(tx.outs) |->
                    [index |-> i - 1, value |-> tx.outs[i].value]]
        mine == {i \in 1..Len(tx.outs) : tx.outs[i].addr = addr}
        kept == SelectSeq([i \in 1..Len(tx.outs) |-> i], LAMBDA i : i \in mine)
        pushed == [k \in 1..Len(kept) |-> outs[kept[k]]]
    IN  IF mine = {} THEN s
        ELSE MapInsert(s, tx.id,
                 (IF tx.id \in DOMAIN s THEN s[tx.id] ELSE <<>>) \o pushed)

RECURSIVE update_for_account(_, _, _, _)
update_for_account(s, txs, n, addr) ==
    IF n > Len(txs) THEN s
    ELSE update_for_account(
             insert_for_account(SpendAllForAccount(s, txs[n].ins, 1), txs[n], addr),
             txs, n + 1, addr)

has_block_been_checked_Never(path) == FALSE
has_block_been_checked(path) == path \in checked_blocks

\* handle_node_connection, NewBlock(block_path).
NewBlock(path) ==
    /\ wop' = <<"NewBlock", path, 0, 0>>
    /\ wbuilt' = Unbuilt
    /\ UNCHANGED accounts
    /\ IF has_block_been_checked(path)
       THEN /\ wsent' = <<>>
            /\ UNCHANGED <<unconfirmed, confirmed, wutxo, checked_blocks>>
       ELSE /\ checked_blocks' = checked_blocks \cup {path}
            /\ unconfirmed' = [a \in Addrs |-> confirm_transactions(a, path).unc]
            /\ confirmed' = [a \in Addrs |-> confirm_transactions(a, path).conf]
            /\ wsent' = ConfirmMessages(path, 1)
            /\ wutxo' = [a \in Addrs |->
                           update_for_account(wutxo[a],
                               retrieve_transactions_from_block(path), 1, a)]
    /\ UNCHANGED NotWallet

\* receive_incoming_transaction adds the transaction to the account of the
\* address unless the account already holds it as unconfirmed.
Receives(a, tx) ==
    /\ \E i \in 1..Len(tx.outs) : tx.outs[i].addr = a
    /\ ~contains(unconfirmed[a], tx.id)

add_new_unconfirmed_transaction(a, tx) ==
    IF \E i \in 1..Len(tx.ins) : tx.ins[i][1] \in DOMAIN wutxo[a]
    THEN [unconfirmed[a] EXCEPT !.spent = Append(@, tx.id)]
    ELSE [unconfirmed[a] EXCEPT !.received = Append(@, tx.id)]

RECURSIVE ReceiveMessages(_, _)
ReceiveMessages(tx, i) ==
    IF i > Len(accounts) THEN <<>>
    ELSE (IF Receives(accounts[i], tx)
          THEN (IF i = 1 THEN << <<"NewTransactionInfo", tx.id>> >> ELSE <<>>)
               \o << <<"AddressReceived", tx.id>> >>
          ELSE <<>>)
         \o ReceiveMessages(tx, i + 1)

\* handle_node_connection, NewTransaction(tx): check_tx_contains_addrs.
NewTransaction(id) ==
    LET tx == WalletTx(id) IN
    /\ wop' = <<"NewTransaction", 0, 0, 0>>
    /\ wbuilt' = Unbuilt
    /\ unconfirmed' = [a \in Addrs |->
                         IF Receives(a, tx)
                         THEN add_new_unconfirmed_transaction(a, tx)
                         ELSE unconfirmed[a]]
    /\ wsent' = ReceiveMessages(tx, 1)
    /\ UNCHANGED <<accounts, confirmed, wutxo, checked_blocks>>
    /\ UNCHANGED NotWallet

\* handle_ui_connection, AccountChanged: change_account.
change_account(addr) ==
    LET index == PositionOf(accounts, addr) IN
    /\ wop' = <<"AccountChanged", addr, 0, 0>>
    /\ wbuilt' = Unbuilt
    /\ IF index = 0 \/ accounts[1] = addr
       THEN /\ accounts' = accounts
            /\ wsent' = <<>>
       ELSE /\ accounts' = <<addr>> \o VecRemove(accounts, index)
            /\ wsent' = << <<"NewCurrentAccount", "">> >>
    /\ UNCHANGED <<unconfirmed, confirmed, wutxo, checked_blocks>>
    /\ UNCHANGED NotWallet

\* The iteration orders a HashMap with these keys can have.
Orders(S) ==
    {f \in [1..Cardinality(S) -> S] :
        \A i, j \in 1..Cardinality(S) : i # j => f[i] # f[j]}

\* The outputs of the set in iteration order.
RECURSIVE Flatten(_, _, _)
Flatten(s, order, n) ==
    IF n > Len(order) THEN <<>>
    ELSE [i \in 1..Len(s[order[n]]) |->
             [tx_id |-> order[n], index |-> s[order[n]][i].index,
              value |-> s[order[n]][i].value]]
         \o Flatten(s, order, n + 1)

\* search_utxos_to_spend: the shortest prefix whose sum reaches the amount;
\* <<>> stands for Err(NotEnoughCoins), an Ok result is never empty.
search_utxos_to_spend(s, order, amount) ==
    LET all == Flatten(s, order, 1)
        ks == {k \in 1..Len(all) : sum_of_outs(SubSeq(all, 1, k)) >= amount}
    IN  IF ks = {} THEN <<>>
        ELSE SubSeq(all, 1, CHOOSE k \in ks : \A l \in ks : k <= l)

calculate_balance(s) ==
    sum_of_outs(Flatten(s, CHOOSE o \in Orders(DOMAIN s) : TRUE, 1))

Failed(e) == [err |-> e, inputs |-> <<>>, outputs |-> <<>>]

\* create_unsigned_transaction, the two outputs: the change, then the target.
TxOutputsFor_FeeFromChange(a, target, value_spent, amount, fee) ==
    <<[addr |-> a, value |-> value_spent - amount - fee],
      [addr |-> target, value |-> amount]>>
TxOutputsFor(a, target, value_spent, amount, fee) ==
    <<[addr |-> a, value |-> value_spent - amount],
      [addr |-> target, value |-> amount - fee]>>

\* Address 0 stands for a string BitcoinAddress::from_string rejects.
create_unsigned_transaction(a, target, amount, fee, order) ==
    IF calculate_balance(wutxo[a]) < amount THEN Failed("NotEnoughCoins")
    ELSE LET sel == search_utxos_to_spend(wutxo[a], order, amount) IN
         IF sel = <<>> THEN Failed("NotEnoughCoins")
         ELSE IF target = 0 THEN Failed("InvalidAddress")
         ELSE [err |-> "none",
               inputs |-> [i \in 1..Len(sel) |-> <<sel[i].tx_id, sel[i].index>>],
               outputs |-> TxOutputsFor(a, target, sum_of_outs(sel), amount, fee)]

\* handle_ui_connection, CreateNewTransaction, for the current account.
CreateNewTransaction(target, amount, fee) ==
    /\ wop' = <<"CreateNewTransaction", target, amount, fee>>
    /\ \E order \in Orders(DOMAIN wutxo[accounts[1]]) :
           wbuilt' = create_unsigned_transaction(accounts[1], target, amount,
                                                 fee, order)
    /\ wsent' = <<>>
    /\ UNCHANGED <<accounts, unconfirmed, confirmed, wutxo, checked_blocks>>
    /\ UNCHANGED NotWallet

\* The steps that change the wallet.
NextWallet ==
    \/ \E path \in WPaths : NewBlock(path)
    \/ \E id \in WTxIds : NewTransaction(id)
    \/ \E addr \in Addrs : change_account(addr)

SpecWallet == Init /\ [][NextWallet]_vars

\* The same steps and the requests for a new transaction, which leave the
\* wallet as it is.
NextWalletUI ==
    \/ NextWallet
    \/ \E target \in 0..NumAccounts, amount \in 0..MaxAmount, fee \in 0..1 :
           CreateNewTransaction(target, amount, fee)

SpecWalletUI == Init /\ [][NextWalletUI]_vars


\* C15: processing NewBlock(path) is idempotent in the wallet: a NewBlock for
\* a path that was already processed leaves every account's unconfirmed
\* transactions, confirmed transactions and UTXO set unchanged and sends no
\* message to the UI.
C15_NewBlockIdempotent ==
    [][(wop'[1] = "NewBlock" /\ wop'[2] \in checked_blocks) =>
          /\ unconfirmed' = unconfirmed
          /\ confirmed' = confirmed
          /\ wutxo' = wutxo
          /\ wsent' = <<>>]_vars

\* Block 1 was processed, its transaction was announced again and is
\* unconfirmed once more, and block 1 has been delivered a second time.
C15_Witness ==
    /\ wop = <<"NewBlock", 1, 0, 0>>
    /\ wsent = <<>>
    /\ contains(confirmed[2], "p")
    /\ contains(unconfirmed[2], "p")

\* The transactions of either list.
IdsOf(txs) ==
    {txs.spent[i] : i \in 1..Len(txs.spent)}
        \cup {txs.received[i] : i \in 1..Len(txs.received)}

\* C16: when the wallet processes a new block path, in every account every
\* unconfirmed transaction whose id is in the block becomes confirmed, with
\* exactly one notification to the UI per moved transaction, and every
\* unconfirmed transaction that is not in the block stays unconfirmed.
C16_ConfirmedMoved ==
    [][(wop'[1] = "NewBlock" /\ wop'[2] \notin checked_blocks) =>
          LET txs == retrieve_transactions_from_block(wop'[2])
              ids == {txs[i].id : i \in 1..Len(txs)}
              Moved(a) == IdsOf(unconfirmed[a]) \cap ids
          IN  /\ \A a \in Addrs :
                    /\ \A t \in Moved(a) :
                          /\ t \notin IdsOf(unconfirmed'[a])
                          /\ t \in IdsOf(confirmed'[a])
                    /\ \A t \in IdsOf(unconfirmed[a]) \ ids :
                          t \in IdsOf(unconfirmed'[a])
                    /\ Len(confirmed'[a].spent) + Len(confirmed'[a].received)
                         = Len(confirmed[a].spent) + Len(confirmed[a].received)
                             + Cardinality(Moved(a))
              /\ \A t \in WTxIds :
                    Cardinality({i \in 1..Len(wsent') :
                                    wsent'[i] = <<"Notification", t>>})
                      = Cardinality({a \in Addrs : t \in Moved(a)})]_vars

\* Block 1 has just been processed: its transaction was unconfirmed in
\* accounts 1 and 2 and is confirmed in both, with two notifications, and the
\* transaction of the other block is still unconfirmed in account 3.
C16_Witness ==
    /\ wop = <<"NewBlock", 1, 0, 0>>
    /\ Cardinality({i \in 1..Len(wsent) : wsent[i] = <<"Notification", "p">>}) = 2
    /\ "p" \in IdsOf(confirmed[1]) /\ "p" \notin IdsOf(unconfirmed[1])
    /\ "p" \in IdsOf(confirmed[2]) /\ "p" \notin IdsOf(unconfirmed[2])
    /\ "q" \in IdsOf(unconfirmed[3])

\* C17: switching the current account to the account at position i is a
\* swap-to-head: that account is at the head, the previous head is at
\* position i, and every other account keeps its position.
C17_SwapToHead ==
    [][wop'[1] = "AccountChanged" =>
          LET i == PositionOf(accounts, wop'[2])
          IN  /\ accounts'[1] = accounts[i]
              /\ accounts'[i] = accounts[1]
              /\ \A j \in 1..Len(accounts) \ {1, i} :
                    accounts'[j] = accounts[j]]_vars

\* The value of the outputs of the account's UTXO set that the inputs name.
RECURSIVE TotalIn(_, _)
TotalIn(s, ins) ==
    IF ins = <<>> THEN 0
    ELSE LET v == s[ins[1][1]]
             o == CHOOSE x \in 1..Len(v) : v[x].index = ins[1][2]
         IN  v[o].value + TotalIn(s, Tail(ins))

is_verack_message_Always(received_verack) == TRUE
is_verack_message(received_verack) ==
    IF Len(received_verack) < LENGTH_VERACK_MESSAGE THEN FALSE
    ELSE SubSeq(received_verack, 1, LENGTH_VERACK_MESSAGE) = VERACK_MESSAGE

\* handshake_if_ok for a new outbound connection, handle_client for an
\* accepted inbound one.
StartHandshake(side) ==
    /\ hs_result # "running"
    /\ hs_side' = side
    /\ hs_pc' = 0
    /\ hs_verack' = <<>>
    /\ hs_result' = "running"
    /\ UNCHANGED NotHandshake

\* The next send or receive succeeds; the receive of the verack step yields
\* the bytes the peer sent.
HandshakeStep(received) ==
    /\ hs_result = "running"
    /\ hs_pc < Len(HandshakeSteps(hs_side))
    /\ hs_pc' = hs_pc + 1
    /\ hs_verack' = IF HandshakeSteps(hs_side)[hs_pc + 1] = "read_verack"
                    THEN received ELSE hs_verack
    /\ UNCHANGED <<hs_side, hs_result>>
    /\ UNCHANGED NotHandshake

\* The next send or receive returns Err (or, inbound, the version payload
\* is too short for version_peer[66..72]): `?` ends the handshake.
HandshakeStepFails ==
    /\ hs_result = "running"
    /\ hs_pc < Len(HandshakeSteps(hs_side))
    /\ hs_result' = "rejected"
    /\ UNCHANGED <<hs_side, hs_pc, hs_verack>>
    /\ UNCHANGED NotHandshake

\* Ok(is_verack_message(verack_received)), and what the caller makes of it.
HandshakeEnds ==
    /\ hs_result = "running"
    /\ hs_pc = Len(HandshakeSteps(hs_side))
    /\ hs_result' = IF is_verack_message(hs_verack) THEN "accepted"
                    ELSE "rejected"
    /\ UNCHANGED <<hs_side, hs_pc, hs_verack>>
    /\ UNCHANGED NotHandshake

NextHandshake ==
    \/ \E side \in {"outbound", "inbound"} : StartHandshake(side)
    \/ \E received \in [1..LENGTH_VERACK_MESSAGE -> Bytes] : HandshakeStep(received)
    \/ HandshakeStepFails
    \/ HandshakeEnds

SpecHandshake == Init /\ [][NextHandshake]_vars

\* C19 as stated: a handshake, outbound or inbound, accepts the session if
\* and only if the bytes read at the verack step equal the literal verack
\* message.
C19_AcceptedIffVerack ==
    hs_result \in {"accepted", "rejected"} =>
        (hs_result = "accepted" <=> hs_verack = VERACK_MESSAGE)

\* C19, amended: a handshake, outbound or inbound, accepts the session if and
\* only if every step of the exchange succeeded and the bytes read at the
\* verack step equal the literal verack message.
C19_AcceptedIffVerackAndNoFailure ==
    hs_result \in {"accepted", "rejected"} =>
        (hs_result = "accepted" <=>
            /\ hs_verack = VERACK_MESSAGE
            /\ hs_pc = Len(HandshakeSteps(hs_side)))

\* An inbound handshake went through all its steps, read the literal verack
\* and was accepted.
C19_Witness ==
    /\ hs_side = "inbound"
    /\ hs_result = "accepted"
    /\ hs_verack = VERACK_MESSAGE
    /\ hs_pc = Len(HandshakeSteps(hs_side))


\* ------------------------------------- ibh_download_or_retry_connection
\* The address lists the function can be called with.
IpLists == UNION {[1..n -> {"v4", "v6"}] : n \in 0..MaxIps}

Front(list) == SubSeq(list, 1, Len(list) - 1)

\* next_ipv4: pops until an IPv4 address comes off the list; ip is "none"
\* for None.
RECURSIVE next_ipv4(_)
next_ipv4_GivesUpAtV6(list) ==
    IF list # <<>> /\ list[Len(list)] = "v4"
    THEN [ip |-> "v4", rest |-> Front(list)]
    ELSE [ip |-> "none", rest |-> list]
next_ipv4(list) ==
    IF list = <<>> THEN [ip |-> "none", rest |-> <<>>]
    ELSE IF list[Len(list)] = "v4" THEN [ip |-> "v4", rest |-> Front(list)]
    ELSE next_ipv4(Front(list))

\* The call, up to the loop: add_curr_ip_to_ips pops the last address
\* whether or not peer_addr() answers (the argument of unwrap_or is
\* evaluated first, and `?` returns when the list is empty), then pushes the
\* peer's address, or the popped one.
CallIbh(list, peer_addr_ok) ==
    /\ ipc = "idle"
    /\ IF list = <<>>
       THEN /\ ips' = list
            /\ ipc' = "returned"
            /\ iret' = "FailedToConnect"
       ELSE /\ ips' = Append(Front(list),
                             IF peer_addr_ok THEN "v4" ELSE list[Len(list)])
            /\ ipc' = "loop"
            /\ iret' = iret
    /\ UNCHANGED <<iruns, iconnects>>
    /\ UNCHANGED NotIbh

\* while !ips.is_empty(), and the Err after the loop.
IbhLoopTest ==
    /\ ipc = "loop"
    /\ IF ips = <<>>
       THEN ipc' = "returned" /\ iret' = "FailedToConnect"
       ELSE ipc' = "run" /\ iret' = iret
    /\ UNCHANGED <<ips, iruns, iconnects>>
    /\ UNCHANGED NotIbh

\* initial_block_headers_download returns.
IbhHeaderRun(ok) ==
    /\ ipc = "run"
    /\ iruns' = Append(iruns, IF ok THEN "Ok" ELSE "Err")
    /\ IF ok
       THEN ipc' = "returned" /\ iret' = "Ok"
       ELSE ipc' = "retry" /\ iret' = iret
    /\ UNCHANGED <<ips, iconnects>>
    /\ UNCHANGED NotIbh

\* The Err arm: next_ipv4, and break when it has none.
IbhNextIp ==
    /\ ipc = "retry"
    /\ ips' = next_ipv4(ips).rest
    /\ IF next_ipv4(ips).ip = "none"
       THEN ipc' = "returned" /\ iret' = "FailedToConnect"
       ELSE ipc' = "connect" /\ iret' = iret
    /\ UNCHANGED <<iruns, iconnects>>
    /\ UNCHANGED NotIbh

\* connect_to_ip: Some(s) replaces the stream, None continues with the old
\* one.
IbhConnect(ok) ==
    /\ ipc = "connect"
    /\ ipc' = "loop"
    /\ iconnects' = IF ok THEN iconnects + 1 ELSE iconnects
    /\ UNCHANGED <<ips, iret, iruns>>
    /\ UNCHANGED NotIbh

NextIbh ==
    \/ \E list \in IpLists, peer_addr_ok \in BOOLEAN : CallIbh(list, peer_addr_ok)
    \/ IbhLoopTest
    \/ \E ok \in BOOLEAN : IbhHeaderRun(ok)
    \/ IbhNextIp
    \/ \E ok \in BOOLEAN : IbhConnect(ok)

\* The function is sequential code: it takes its next step, and the header
\* run and the connection attempt it calls return.
SpecIbh == Init /\ [][NextIbh]_vars /\ WF_vars(NextIbh)

C21_EveryRetryOverNewConnection ==
    /\ ipc = "run" => iconnects = Len(iruns)
    /\ ipc = "returned" => (iconnects = 0 \/ iconnects < Len(iruns))


\* C30: size caps are enforced where a headers payload is received: a headers
\* message with a count above the maximum fails and none of its entries is
\* stored, so no step of the downloader adds more than the maximum to the
\* header file.
C30_HeadersCapEnforced ==
    [][hpc = "wait" => Len(hfile') <= Len(hfile) + MAX_HEADERS_COUNT]_vars


\* ------------------------------------------------------ the receive loops
\* One message on the wire: a 24-byte header that names the command and the
\* payload size, then the payload.  A ping and a pong carry a nonce, an inv
\* its inventory; every message but sendheaders has a payload.
Nonces == {1, 2}
Entry(type, h) == [type |-> type, hash |-> h]
Entries == {Entry("MSG_TX", 1), Entry("MSG_BLOCK", 2)}
Inventories ==
    UNION {[1..n -> Entries] : n \in 1..MaxInventory}
\* Two messages that do not parse: a header whose command name is none of
\* the known ones (extract_command_name returns CommandTypeError), and an
\* inv whose count is over MAX_INVENTORY_VECTOR (InvMessage::from_bytes
\* returns InvalidSizeOfField after the payload was read).
Malformed == {"unknown", "inv_oversize"}
Msg(cmd, nonce, inv) == [cmd |-> cmd, nonce |-> nonce, inv |-> inv]
Messages ==
    {Msg(c, n, <<>>) : c \in {"ping", "pong"}, n \in Nonces}
        \cup {Msg(c, 0, <<>>) :
                c \in {"sendheaders", "addr", "headers", "block", "tx"}}
        \cup {Msg(c, 0, <<>>) : c \in Malformed}
        \cup {Msg("inv", 0, i) : i \in Inventories}
Wires == UNION {[1..n -> Messages] : n \in 0..MaxWire}
payload_size(m) == IF m.cmd = "sendheaders" THEN 0 ELSE 1

\* What one arm of a loop's match does with the message whose header it
\* holds: whether it reads the payload off the stream, what it sends or
\* starts, and whether the loop goes round again or returns.
Arm(consumed, out, next) == [consumed |-> consumed, out |-> out, next |-> next]
Out(kind, id) == [kind |-> kind, id |-> id]
Drain == Arm(TRUE, <<>>, "continue")
CommandTypeError == Arm(FALSE, <<>>, "return_err")

\* send_pong_message: reads payload_size bytes, the nonce, and sends them
\* back under a pong header.
send_pong_message(m) == Arm(TRUE, <<Out("pong", m.nonce)>>, "continue")

\* receive_and_handle_inv_message: reads the payload, then walks the
\* inventory: a MSG_TX entry sends a getdata, a MSG_BLOCK entry returns its
\* hash at once, and the caller downloads that block.
RECURSIVE InventoryFrom(_, _, _)
InventoryFrom(inventory, n, out) ==
    IF n > Len(inventory)
    THEN Arm(TRUE, out, "continue")
    ELSE IF inventory[n].type = "MSG_BLOCK"
         THEN Arm(TRUE, Append(out, Out("download", inventory[n].hash)),
                  "return")
         ELSE InventoryFrom(inventory, n + 1,
                            Append(out, Out("getdata", inventory[n].hash)))
receive_and_handle_inv_message(m) == InventoryFrom(m.inv, 1, <<>>)

\* The arms the three loops share: ping, pong, sendheaders, addr (feefilter
\* is handled as addr is).  The pong arm is `continue` alone.
SharedArms(m, rest) ==
    CASE m.cmd = "unknown" -> CommandTypeError
      [] m.cmd = "ping" -> send_pong_message(m)
      [] m.cmd = "pong" -> Arm(FALSE, <<>>, "continue")
      [] m.cmd = "sendheaders" -> Drain
      [] m.cmd = "addr" -> Drain
      [] OTHER -> rest

\* BlockHeaderDownloader::handle_download: a headers message is read and
\* (a short batch) ends the loop; inv is read and dropped; the `_` arm reads
\* the payload.
handle_download(m) ==
    SharedArms(m, IF m.cmd = "headers" THEN Arm(TRUE, <<>>, "return")
                  ELSE IF m.cmd = "inv_oversize"
                  THEN Arm(TRUE, <<>>, "return_err")
                  ELSE Drain)

\* BlockDownloader::handle_block_download: the headers arm is `continue`
\* alone; a block is read and returned.
handle_block_download(m) ==
    SharedArms(m, IF m.cmd = "headers" THEN Arm(FALSE, <<>>, "continue")
                  ELSE IF m.cmd = "block" THEN Arm(TRUE, <<>>, "return")
                  ELSE IF m.cmd = "inv_oversize"
                  THEN Arm(TRUE, <<>>, "return_err")
                  ELSE Drain)

\* MessageListener::broadcasting_start: inv goes to
\* receive_and_handle_inv_message and its Err is printed (`continue`), a tx
\* is parsed off the stream and returned, the `_` arm reads the payload.
broadcasting_start(m) ==
    SharedArms(m, IF m.cmd = "inv" THEN receive_and_handle_inv_message(m)
                  ELSE IF m.cmd = "inv_oversize" THEN Drain
                  ELSE IF m.cmd = "tx" THEN Arm(TRUE, <<>>, "return")
                  ELSE Drain)

ArmOf(loop, m) ==
    CASE loop = "headers" -> handle_download(m)
      [] loop = "blocks" -> handle_block_download(m)
      [] loop = "listener" -> broadcasting_start(m)

\* A loop starts on a stream on which the peer writes the messages of wire.
StartSession(loop, wire) ==
    /\ rstate = "idle"
    /\ rloop' = loop
    /\ rwire' = wire
    /\ rstate' = "running"
    /\ UNCHANGED <<raligned, rin, rout>>
    /\ UNCHANGED NotSession

\* One pass of the loop: Header::new reads 24 bytes and extract_command_name
\* names the arm.  When the bytes left unread by an earlier arm come first,
\* the 24 bytes are no header and extract_command_name returns an error,
\* which `?` returns from the loop.  The listener's thread calls
\* listen_to_new_messages again after a block or a transaction, so its loop
\* goes on where the other two return.
SessionStep ==
    /\ rstate = "running"
    /\ rwire # <<>>
    /\ LET m == Head(rwire)
           arm == ArmOf(rloop, m)
       IN  /\ rin' = Append(rin, m)
           /\ rwire' = Tail(rwire)
           /\ IF raligned
              THEN /\ rout' = rout \o arm.out
                   /\ raligned' = (arm.consumed \/ payload_size(m) = 0)
                   /\ rstate' = IF arm.next = "return_err" THEN "Err"
                                ELSE IF arm.next = "return"
                                        /\ rloop # "listener"
                                THEN "Ok"
                                ELSE "running"
              ELSE /\ rstate' = "Err"
                   /\ UNCHANGED <<rout, raligned>>
    /\ rloop' = rloop
    /\ UNCHANGED NotSession

\* A read that fails (the peer closed, or a timeout of the block loop).
SessionReadFails ==
    /\ rstate = "running"
    /\ rwire = <<>>
    /\ rstate' = "Err"
    /\ UNCHANGED <<rloop, rwire, raligned, rin, rout>>
    /\ UNCHANGED NotSession

NextSession ==
    \/ \E loop \in {"headers", "blocks", "listener"}, wire \in Wires :
         StartSession(loop, wire)
    \/ SessionStep
    \/ SessionReadFails

SpecSession == Init /\ [][NextSession]_vars

\* C23: in every receive loop, after a message of any type is handled or
\* ignored, exactly payload_size bytes after its header have been consumed,
\* so that the next 24 bytes read are the header of the next message.
C23_FramingAligned == raligned

\* C22: in every receive loop, each ping received is answered with exactly
\* one pong that carries the ping's nonce, before the next message is
\* handled: at every point the pongs sent are the nonces of the pings the
\* loop has read past, in order.
RECURSIVE PingNonces(_)
PingNonces(ms) ==
    IF ms = <<>> THEN <<>>
    ELSE (IF Head(ms).cmd = "ping" THEN <<Head(ms).nonce>> ELSE <<>>)
             \o PingNonces(Tail(ms))
RECURSIVE PongNonces(_)
PongNonces(os) ==
    IF os = <<>> THEN <<>>
    ELSE (IF Head(os).kind = "pong" THEN <<Head(os).id>> ELSE <<>>)
             \o PongNonces(Tail(os))
C22_EveryPingAnswered == PongNonces(rout) = PingNonces(rin)

\* C25: for every entry of an inv message a listener handles, whatever its
\* position in the inventory, a MSG_TX entry has a getdata for that
\* transaction sent and a MSG_BLOCK entry has a download of that block
\* started.
InRange(seq) == {seq[i] : i \in 1..Len(seq)}
C25_EveryInvEntryHandled ==
    [][(/\ rstate = "running"
        /\ rloop = "listener"
        /\ raligned
        /\ rwire # <<>>
        /\ Head(rwire).cmd = "inv"
        /\ rin' # rin)
       => \A e \in InRange(Head(rwire).inv) :
            /\ e.type = "MSG_TX" =>
                 Out("getdata", e.hash) \in InRange(SubSeq(rout', Len(rout) + 1, Len(rout')))
            /\ e.type = "MSG_BLOCK" =>
                 Out("download", e.hash) \in InRange(SubSeq(rout', Len(rout) + 1, Len(rout')))]_vars


\* C24: for every block a listener downloads, validates and saves, the UTXO
\* update of its path is applied exactly once and afterwards exactly one
\* NewBlock(path) is sent to the wallet; for a block whose download,
\* validation or save fails, neither happens.  Every save of a listener
\* (one header appended to the header file) has its update, and every
\* update its NewBlock, but for the listeners that stand between the two;
\* no path is applied or sent twice, and an applied path holds a valid
\* block.
CountOf(seq, x) == Cardinality({i \in 1..Len(seq) : seq[i] = x})
ListenersAt(p) == Cardinality({l \in Workers : pc[l] = p})
C27_FileNamedAfterContent ==
    \A h \in Hashes :
        disk[h].state = "written" => disk[h].bytes.hash = h


\* --------------------------------------------------- serving getheaders
\* The header file of the serving node: header i hashes to i.  Locator 0
\* is a hash no stored header has.
StoredHeaders == [i \in 1..NumStored |-> i]
Locators == 0..NumStored

\* HeadersMessage::move_file_to_starting_hash: reads on from the cursor to
\* the header that hashes to the locator, or to the end of the file.
RECURSIVE move_file_to_starting_hash(_, _)
move_file_to_starting_hash(pos, starting_header_hash) ==
    IF pos >= NumStored THEN NumStored
    ELSE IF StoredHeaders[pos + 1] = starting_header_hash THEN pos + 1
    ELSE move_file_to_starting_hash(pos + 1, starting_header_hash)

\* HeadersMessage::obtain_headers_after_starting_hash: up to
\* MAX_HEADERS_COUNT reads from the cursor.
obtain_headers_after_starting_hash(pos) ==
    SubSeq(StoredHeaders, pos + 1,
           IF pos + MAX_HEADERS_COUNT < NumStored THEN pos + MAX_HEADERS_COUNT
           ELSE NumStored)

\* HeadersMessage::retrieve_following_headers: both steps, then the cursor
\* is moved back by one header; a seek before the start is an error.
retrieve_following_headers(pos, starting_header_hash) ==
    LET found == move_file_to_starting_hash(pos, starting_header_hash)
        headers == obtain_headers_after_starting_hash(found)
        after == found + Len(headers)
    IN  IF after = 0
        THEN [ok |-> FALSE, headers |-> <<>>, pos |-> after]
        ELSE [ok |-> TRUE, headers |-> headers, pos |-> after - 1]

\* The GetHeaders arm of client_message_handler: send_batch_headers over the
\* file the session opened once; its Err ends the session.
ServeGetHeaders(locator) ==
    /\ gopen
    /\ Len(gserved) < MaxRequests
    /\ LET r == retrieve_following_headers(gpos, locator) IN
       /\ gpos' = r.pos
       /\ IF r.ok
          THEN /\ gserved' = Append(gserved, [locator |-> locator,
                                              headers |-> r.headers])
               /\ gopen' = gopen
          ELSE /\ gserved' = gserved
               /\ gopen' = FALSE
    /\ UNCHANGED NotServer

\* is_tcpstream_connected answers false: the handler returns.
ClientLeaves ==
    /\ gopen
    /\ gopen' = FALSE
    /\ UNCHANGED <<gpos, gserved>>
    /\ UNCHANGED NotServer

NextServer ==
    \/ \E locator \in Locators : ServeGetHeaders(locator)
    \/ ClientLeaves

SpecServer == Init /\ [][NextServer]_vars

\* C26: every getheaders served on a client session, the first or a later
\* one: when the locator is the hash of stored header k the reply holds the
\* headers k+1 .. min(k + MAX_HEADERS_COUNT, last) in file order, and when
\* it is the hash of no stored header the reply is empty.
FollowingHeaders(k) ==
    [i \in 1..(IF k + MAX_HEADERS_COUNT < NumStored THEN MAX_HEADERS_COUNT
               ELSE NumStored - k) |-> k + i]
C26_ReplyFollowsLocator ==
    \A n \in 1..Len(gserved) :
        gserved[n].headers =
            IF gserved[n].locator \in 1..NumStored
            THEN FollowingHeaders(gserved[n].locator)
            ELSE <<>>


\* ------------------------------------------------------ proof of inclusion
\* A hash is a sequence of bytes.  Transaction i has the id <<i, 0>>, and
\* sha256d is an injective wrapping of its input, so that two hashes are
\* equal only when they were computed from the same bytes in the same order.
TxHash(i) == <<i, 0>>
sha256d(data) == <<-1>> \o data \o <<-2>>
Reverse(h) == [k \in 1..Len(h) |-> h[Len(h) + 1 - k]]
LEFT == "left"
RIGHT == "right"

\* MerkleTree::build_merkle_tree_from_hashes: a level of odd length (but the
\* root) has its last hash pushed again; the levels are kept from the
\* leaves to the root.
RECURSIVE build_merkle_tree_from_hashes(_, _)
build_merkle_tree_from_hashes(tx_hashes, leefs) ==
    IF Len(tx_hashes) = 1 THEN Append(leefs, tx_hashes)
    ELSE LET level == IF Len(tx_hashes) % 2 # 0
                      THEN Append(tx_hashes, tx_hashes[Len(tx_hashes)])
                      ELSE tx_hashes
             new_hashes == [i \in 1..(Len(level) \div 2) |->
                              sha256d(level[2 * i - 1] \o level[2 * i])]
         IN  build_merkle_tree_from_hashes(new_hashes, Append(leefs, level))
new_from_hashes(hashes) == build_merkle_tree_from_hashes(hashes, <<>>)
root(leefs) == leefs[Len(leefs)][1]

\* iter().position(): the index, from 0, of the first equal element, or -1.
position(seq, x) ==
    IF \E i \in 1..Len(seq) : seq[i] = x
    THEN (CHOOSE i \in 1..Len(seq) :
            seq[i] = x /\ \A j \in 1..(i - 1) : seq[j] # x) - 1
    ELSE -1

\* The direction pushed with the sibling of a node.
sibling_direction_AlwaysRight(is_left_child) == RIGHT
sibling_direction(is_left_child) == IF is_left_child THEN RIGHT ELSE LEFT

\* The loop of MerkleProof::for_tx_in_block over the levels below the root.
RECURSIVE ProofPathFrom(_, _, _, _)
ProofPathFrom(leefs, level, hash_index, proof_path) ==
    IF level >= Len(leefs) - 1 THEN proof_path
    ELSE LET is_left_child == hash_index % 2 = 0
             sibling_index == IF is_left_child THEN hash_index + 1
                              ELSE hash_index - 1
             sib == Reverse(leefs[level + 1][sibling_index + 1])
         IN  ProofPathFrom(leefs, level + 1, hash_index \div 2,
                           Append(proof_path,
                                  <<sib, sibling_direction(is_left_child)>>))

\* MerkleProof::for_tx_in_block: the id of the hex string is reversed and
\* looked up among the leaves; initialize_from_leaf pushes it, reversed
\* again, with its own direction.
for_tx_in_block(tx_id, txs) ==
    LET leefs == new_from_hashes(txs)
        tx_id_bytes == Reverse(tx_id)
        hash_index == position(leefs[1], tx_id_bytes)
    IN  IF hash_index = -1
        THEN [ok |-> FALSE, proof_path |-> <<>>]
        ELSE [ok |-> TRUE,
              proof_path |->
                  ProofPathFrom(leefs, 0, hash_index,
                      <<<<Reverse(tx_id_bytes),
                          IF hash_index % 2 = 0 THEN LEFT ELSE RIGHT>>>>)]

\* MerkleProof::build_merkle_root: folds the path from its first entry.
RECURSIVE FoldFrom(_, _, _)
FoldFrom(proof_path, n, merkle_root) ==
    IF n > Len(proof_path) THEN merkle_root
    ELSE LET sibling_hash == Reverse(proof_path[n][1])
         IN  FoldFrom(proof_path, n + 1,
                      sha256d(IF proof_path[n][2] = RIGHT
                              THEN merkle_root \o sibling_hash
                              ELSE sibling_hash \o merkle_root))
build_merkle_root(proof_path) ==
    FoldFrom(proof_path, 2, Reverse(proof_path[1][1]))

TxLists == UNION {[1..n -> {TxHash(i) : i \in 1..NumTxIds}] : n \in 1..MaxTxs}

\* A proof is asked for a transaction id, of the block or not.
AskProof(txs, i) ==
    /\ mstep = "idle"
    /\ mtxs' = txs
    /\ mtx_id' = Reverse(TxHash(i))
    /\ mstep' = "asked"
    /\ UNCHANGED <<mproof, mroot>>
    /\ UNCHANGED NotMerkle

ForTxInBlock ==
    /\ mstep = "asked"
    /\ LET r == for_tx_in_block(mtx_id, mtxs) IN
       /\ mproof' = r.proof_path
       /\ mstep' = IF r.ok THEN "proved" ELSE "InvalidMerkleTree"
    /\ UNCHANGED <<mtxs, mtx_id, mroot>>
    /\ UNCHANGED NotMerkle

BuildMerkleRoot ==
    /\ mstep = "proved"
    /\ mroot' = build_merkle_root(mproof)
    /\ mstep' = "built"
    /\ UNCHANGED <<mtxs, mtx_id, mproof>>
    /\ UNCHANGED NotMerkle

NextMerkle ==
    \/ \E txs \in TxLists, i \in 1..(NumTxIds + 1) : AskProof(txs, i)
    \/ ForTxInBlock
    \/ BuildMerkleRoot

SpecMerkle == Init /\ [][NextMerkle]_vars

\* C28: for every tree built from a non-empty list of transaction ids and
\* every leaf, the proof generated for the leaf folds to the root of the
\* tree; a proof asked for an id that is no leaf fails with
\* InvalidMerkleTree.
IsLeaf(tx_id, txs) == \E n \in 1..Len(txs) : txs[n] = Reverse(tx_id)
C28_ProofFoldsToRoot ==
    /\ mstep = "built" => mroot = root(new_from_hashes(mtxs))
    /\ mstep \in {"proved", "built"} => IsLeaf(mtx_id, mtxs)
    /\ mstep = "InvalidMerkleTree" => ~IsLeaf(mtx_id, mtxs)

\* The proof of the third of three transactions, whose sibling is its own
\* duplicate, was folded.
C28_Witness ==
    /\ mstep = "built"
    /\ Len(mtxs) = 3
    /\ Reverse(mtx_id) = mtxs[3]
    /\ mtxs[1] # mtxs[3]
    /\ mtxs[2] # mtxs[3]
    /\ Len(mproof) = 3


\* ------------------------------------------------------------ CompactSize
\* A u64 (the usize of the 64-bit build) is its 8 little-endian bytes, the
\* lowest first; the lengths tried have the bytes at the edges of the
\* prefix rule in their two low bytes, 0, 1 or 255 in the first byte past a
\* u16 and past a u32, and 0 or 255 elsewhere.
LowBytes == {0, 1, 252, 253, 254, 255}
EdgeBytes == {0, 1, 255}
HighBytes == {0, 255}
Lengths ==
    {<<b1, b2, b3, b4, b5, b6, b7, b8>> :
        b1 \in LowBytes, b2 \in LowBytes, b3 \in EdgeBytes, b4 \in HighBytes,
        b5 \in EdgeBytes, b6 \in HighBytes, b7 \in HighBytes, b8 \in HighBytes}
AsU64(bytes) == [i \in 1..8 |-> IF i <= Len(bytes) THEN bytes[i] ELSE 0]
Less(a, b) ==
    \E i \in 1..8 : a[i] < b[i] /\ \A j \in (i + 1)..8 : a[j] = b[j]
LessEq(a, b) == a = b \/ Less(a, b)
Variant(variant, n) == [ok |-> TRUE, variant |-> variant, n |-> n]

\* CompactSize::new: the cast `as u8`, `as u16`, `as u32` keeps the low
\* bytes.
fits_u8_UpTo0xFD(length) == LessEq(length, AsU64(<<253>>))
fits_u8(length) == Less(length, AsU64(<<253>>))
CompactSize_new(length) ==
    IF fits_u8(length)
    THEN Variant("U8", SubSeq(length, 1, 1))
    ELSE IF LessEq(length, AsU64(<<255, 255>>))
    THEN Variant("U16", SubSeq(length, 1, 2))
    ELSE IF LessEq(length, AsU64(<<255, 255, 255, 255>>))
    THEN Variant("U32", SubSeq(length, 1, 4))
    ELSE Variant("U64", length)

\* CompactSize::to_bytes: the prefix, then n.to_le_bytes().
to_bytes(c) ==
    CASE c.variant = "U8" -> c.n
      [] c.variant = "U16" -> <<253>> \o c.n
      [] c.variant = "U32" -> <<254>> \o c.n
      [] c.variant = "U64" -> <<255>> \o c.n

\* CompactSize::read_varint: read_exact of one byte, then of 2, 4 or 8 more
\* as the byte says; a short source is FailedToRead.
ReadExact(source, from, count, variant) ==
    IF Len(source) < from + count - 1 THEN NoCompactSize
    ELSE Variant(variant, SubSeq(source, from, from + count - 1))
read_varint(source) ==
    IF source = <<>> THEN NoCompactSize
    ELSE CASE source[1] = 253 -> ReadExact(source, 2, 2, "U16")
           [] source[1] = 254 -> ReadExact(source, 2, 4, "U32")
           [] source[1] = 255 -> ReadExact(source, 2, 8, "U64")
           [] OTHER -> Variant("U8", <<source[1]>>)

\* CompactSize::get_value: `as u64`.
get_value(c) == AsU64(c.n)

CompactSizeNew(length) ==
    /\ cs_step = "idle"
    /\ cs_length' = length
    /\ cs_step' = "new"
    /\ UNCHANGED <<cs_bytes, cs_read>>
    /\ UNCHANGED NotCompactSize

CompactSizeToBytes ==
    /\ cs_step = "new"
    /\ cs_bytes' = to_bytes(CompactSize_new(cs_length))
    /\ cs_step' = "to_bytes"
    /\ UNCHANGED <<cs_length, cs_read>>
    /\ UNCHANGED NotCompactSize

CompactSizeReadVarint ==
    /\ cs_step = "to_bytes"
    /\ cs_read' = read_varint(cs_bytes)
    /\ cs_step' = "read_varint"
    /\ UNCHANGED <<cs_length, cs_bytes>>
    /\ UNCHANGED NotCompactSize

NextCompactSize ==
    \/ \E length \in Lengths : CompactSizeNew(length)
    \/ CompactSizeToBytes
    \/ CompactSizeReadVarint

SpecCompactSize == Init /\ [][NextCompactSize]_vars

\* C29: for every n in [0, 2^64), CompactSize::new(n).to_bytes() is the
\* minimal encoding under the prefix rule (one byte below 0xFD, 0xFD and a
\* u16, 0xFE and a u32, 0xFF and a u64, little-endian), and read_varint of
\* those bytes returns n.
SignificantBytes(n) ==
    IF \A i \in 1..8 : n[i] = 0 THEN 0
    ELSE CHOOSE i \in 1..8 : n[i] # 0 /\ \A j \in (i + 1)..8 : n[j] = 0
MinimalEncoding(n) ==
    IF SignificantBytes(n) <= 1 /\ n[1] < 253 THEN <<n[1]>>
    ELSE IF SignificantBytes(n) <= 2 THEN <<253, n[1], n[2]>>
    ELSE IF SignificantBytes(n) <= 4 THEN <<254, n[1], n[2], n[3], n[4]>>
    ELSE <<255>> \o n
C29_MinimalAndRoundTrip ==
    /\ cs_step \in {"to_bytes", "read_varint"} =>
         cs_bytes = MinimalEncoding(cs_length)
    /\ cs_step = "read_varint" =>
         /\ cs_read.ok
         /\ get_value(cs_read) = cs_length

\* 0xFD itself, the least value that needs the two-byte form, and a value
\* above 2^63, were written and read back.
C29_Witness ==
    /\ cs_step = "read_varint"
    /\ \/ cs_length = AsU64(<<253>>)
       \/ cs_length[8] = 255


\* C40: proof-of-work validation of a received block returns Ok or
\* InvalidProofOfWork for every exponent byte of n_bits; it never panics,
\* so no block a peer sends ends a worker, the retry pass or a listener.
C40_ProofOfWorkNeverPanics ==
    /\ \A t \in Threads :
         /\ pc[t] # "panicked"
         /\ blk[t] # NoBlock =>
              validate_proof_of_work(blk[t]) \in {"Ok", "InvalidProofOfWork"}
    /\ mpc # "panicked"


\* C35: the retry pass counts a hash taken from the failure channel as
\* downloaded, and goes on to the next hash, only if a valid block file
\* for that hash is on disk by then.
C35_RetrySuccessMeansFileOnDisk ==
    [][(/\ mpc \in {"retry_check", "retry_validate", "retry_create",
                    "retry_write"}
        /\ mpc' = "retry")
       => /\ disk'[hash[Main]].state = "written"
          /\ validate_block(disk'[hash[Main]].bytes) = "Ok"]_vars


\* C33: read_last_block_header seeds the header file with the genesis
\* header if and only if the file is empty; when the file holds one or
\* more records it returns the last record and leaves the file unchanged.
C33_SeedsOnlyAnEmptyFile ==
    [][(hpc = "idle" /\ hpc' = "wait")
       => IF hfile = <<>>
          THEN hfile' = <<Genesis>> /\ last_bh' = Genesis
          ELSE hfile' = hfile /\ last_bh' = hfile[Len(hfile)]]_vars


\* C39: the UI receives at most one NewBlock per block, and only from a
\* listener that itself persisted the block, even when several listeners
\* download the same announced block at the same time.
C39_OneUINewBlockPerSavedBlock ==
    \A h \in Hashes :
        /\ uiNewBlock[h] <= 1
        /\ (uiNewBlock[h] = 1 /\ \A l \in Workers : pc[l] = "listen") =>
             disk[h].state = "written"


\* C31: a parse error on a received message (unknown command, invalid
\* size) is fatal to the session on which it occurred: once a message that
\* does not parse has been read, no further message is read from that
\* stream.
C31_ParseErrorEndsTheSession ==
    [][(\E n \in 1..Len(rin) : rin[n].cmd \in Malformed) => rin' = rin]_vars


\* ------------------------------------------------- the hashes to download
\* read_block_headers: reads the records from the last one backwards, down
\* to but not including the record at position 0, and stops at the first
\* record older than the starting date.
RECURSIVE read_block_headers(_, _, _)
read_block_headers(f, record, initial_block_headers) ==
    IF record <= 1 THEN initial_block_headers
    ELSE IF Timestamp(f[record]) < starting_date THEN initial_block_headers
    ELSE read_block_headers(f, record - 1,
                            Append(initial_block_headers, f[record]))

\* read_initial_block_headers_from_file: the records read, in file order.
read_initial_block_headers_from_file(f) ==
    Reverse(read_block_headers(f, Len(f), <<>>))

\* queue_hashes: one send per header, in order.
queue_hashes(header_blocks) == header_blocks

\* C32: after a completed header run the hashes queued for download are
\* exactly the headers stored in the header file whose timestamp is not
\* before the starting date, whatever the order of timestamps in the file.
C32_QueuedAreTheHeadersSinceStartingDate ==
    hpc = "ibd" =>
        InRange(queue_hashes(read_initial_block_headers_from_file(hfile)))
            = {h \in InFile(hfile) : Timestamp(h) >= starting_date}


\* C38: for every account and every transaction id, the transaction is
\* never pending and confirmed at the same time and appears at most once in
\* each set, for any order of NewTransaction and NewBlock messages.
Occurrences(txs, t) ==
    CountOf(txs.spent, t) + CountOf(txs.received, t)
C38_PendingAndConfirmedDisjoint ==
    \A a \in Addrs : \A t \in WTxIds :
        /\ ~(t \in IdsOf(unconfirmed[a]) /\ t \in IdsOf(confirmed[a]))
        /\ Occurrences(unconfirmed[a], t) <= 1
        /\ Occurrences(confirmed[a], t) <= 1


\* ------------------------------------- listeners, wallet and a new account
\* UtxoSet::update over the transactions of a block, from the n-th on: the
\* inputs are spent, then the outputs are inserted under the tx id.
RECURSIVE update_from_block(_, _, _)
update_from_block(s, txs, n) ==
    IF n > Len(txs) THEN s
    ELSE update_from_block(
             MapInsert(SpendAllForAccount(s, txs[n].ins, 1), txs[n].id,
                 [i \in 1..Len(txs[n].outs) |->
                     [index |-> i - 1, value |-> txs[n].outs[i].value,
                      addr |-> txs[n].outs[i].addr]]),
             txs, n + 1)

\* save_block: validate_and_save_block_listener creates the file of the block.
XWriteBlock(l, path) ==
    /\ xlisten[l] = "idle"
    /\ path \notin xfiles
    /\ xfiles' = xfiles \cup {path}
    /\ xpath' = [xpath EXCEPT ![l] = path]
    /\ xlisten' = [xlisten EXCEPT ![l] = "update"]
    /\ UNCHANGED <<xindex, xchannel, xpresent, xutxo, xchecked>>
    /\ UNCHANGED NotProjection

\* save_block: the index is locked and updated with the block.
XUpdateIndex(l) ==
    /\ xlisten[l] = "update"
    /\ xindex' = update_from_block(xindex,
                     retrieve_transactions_from_block(xpath[l]), 1)
    /\ xlisten' = [xlisten EXCEPT ![l] = "send"]
    /\ UNCHANGED <<xfiles, xpath, xchannel, xpresent, xutxo, xchecked>>
    /\ UNCHANGED NotProjection

\* save_block: NewBlock(path) is sent on the wallet channel.
XSendNewBlock(l) ==
    /\ xlisten[l] = "send"
    /\ xchannel' = Append(xchannel, xpath[l])
    /\ xlisten' = [xlisten EXCEPT ![l] = "idle"]
    /\ UNCHANGED <<xindex, xfiles, xpath, xpresent, xutxo, xchecked>>
    /\ UNCHANGED NotProjection

\* handle_node_connection, NewBlock: update_accounts_utxo over the accounts
\* of the wallet unless the block has been checked.
XNewBlock ==
    /\ xchannel # <<>>
    /\ xchannel' = Tail(xchannel)
    /\ IF Head(xchannel) \in xchecked
       THEN UNCHANGED <<xutxo, xchecked>>
       ELSE /\ xchecked' = xchecked \cup {Head(xchannel)}
            /\ xutxo' = [a \in Addrs |->
                           IF a \in xpresent
                           THEN update_for_account(xutxo[a],
                                    retrieve_transactions_from_block(Head(xchannel)),
                                    1, a)
                           ELSE xutxo[a]]
    /\ UNCHANGED <<xindex, xfiles, xlisten, xpath, xpresent>>
    /\ UNCHANGED NotProjection

\* handle_ui_connection, AddAccount: add_account_to_wallet locks the wallet
\* and the index, and Account::new takes the projection of the index.
add_account_to_wallet(addr) ==
    /\ addr \notin xpresent
    /\ xpresent' = xpresent \cup {addr}
    /\ xutxo' = [xutxo EXCEPT ![addr] = users_utxo_set(xindex, addr)]
    /\ UNCHANGED <<xindex, xfiles, xlisten, xpath, xchannel, xchecked>>
    /\ UNCHANGED NotProjection

NextProjection ==
    \/ \E l \in Workers, path \in WPaths : XWriteBlock(l, path)
    \/ \E l \in Workers : XUpdateIndex(l)
    \/ \E l \in Workers : XSendNewBlock(l)
    \/ XNewBlock
    \/ \E addr \in Addrs : add_account_to_wallet(addr)

SpecProjection == Init /\ [][NextProjection]_vars

\* C37: once the wallet has processed every NewBlock sent so far (no
\* listener is inside save_block and the wallet channel is empty), the UTXO
\* set of every account equals the projection of the node's index on the
\* account's address, also for an account added while a NewBlock was queued.
C37_AccountsProjectTheIndex ==
    (xchannel = <<>> /\ \A l \in Workers : xlisten[l] = "idle") =>
        \A a \in xpresent : xutxo[a] = users_utxo_set(xindex, a)


\* ------------------------------------------------- locks and socket I/O
\* An operation as the sequence of its lock, unlock, socket and channel
\* steps.  A guard that is a temporary is dropped at the end of its
\* statement; a guard bound by let is dropped at the end of its scope.

\* broadcasting_start: Header::new, the log line, the payload of the message.
broadcasting_start_locks ==
    << <<"socket", "peer">>, <<"lock", "logger">>, <<"unlock", "logger">>,
       <<"socket", "peer">> >>

\* process_transaction: the logger guard lives to the end of the match, then
\* send_tx_to_wallet.
process_transaction_locks ==
    << <<"lock", "logger">>, <<"unlock", "logger">>,
       <<"lock", "channel">>, <<"unlock", "channel">> >>

\* BlockDownloader::block_download: getdata, Header::new, the log line, the
\* payload.
block_download_locks ==
    << <<"socket", "peer">>, <<"socket", "peer">>, <<"lock", "logger">>,
       <<"unlock", "logger">>, <<"socket", "peer">> >>

\* MessageListener::save_block: the index, then the wallet channel.
save_block_locks ==
    << <<"lock", "utxo">>, <<"unlock", "utxo">>,
       <<"lock", "channel">>, <<"unlock", "channel">> >>

\* process_hash_and_download: recv under the receiver guard, download_block.
process_hash_and_download_locks ==
    << <<"lock", "receiver">>, <<"recv", "hashes">>, <<"unlock", "receiver">> >>
    \o block_download_locks
    \o << <<"lock", "logger">>, <<"unlock", "logger">> >>

\* handle_node_connection: receive, then the arm under the wallet guard.
handle_node_connection_locks ==
    << <<"recv", "node_channel">>, <<"lock", "wallet">>, <<"unlock", "wallet">> >>

obtain_current_address_KeepsGuard == << <<"lock", "wallet">> >>
obtain_current_address_locks == << <<"lock", "wallet">>, <<"unlock", "wallet">> >>

create_and_broadcast_tx_GuardBound ==
    obtain_current_address_locks
    \o << <<"lock", "wallet">>, <<"socket", "peer">>, <<"unlock", "wallet">> >>
create_and_broadcast_tx_locks ==
    obtain_current_address_locks
    \o << <<"lock", "wallet">>, <<"unlock", "wallet">>, <<"socket", "peer">> >>

\* add_account_to_wallet: the wallet guard, then the index guard; dropped in
\* reverse order of declaration.
add_account_to_wallet_locks ==
    << <<"lock", "wallet">>, <<"lock", "utxo">>,
       <<"unlock", "utxo">>, <<"unlock", "wallet">> >>

change_account_locks == << <<"lock", "wallet">>, <<"unlock", "wallet">> >>

\* The operations of each thread and their steps.
OpsOf(t) ==
    CASE t \in {"listener1", "listener2"} -> {"tx", "block"}
      [] t = "node" -> {"handle_node_connection"}
      [] t = "ui" -> {"CreateNewTransaction", "AddAccount", "AccountChanged"}
      [] OTHER -> {"process_hash_and_download"}

StepsOf(op) ==
    CASE op = "tx" -> broadcasting_start_locks \o process_transaction_locks
      [] op = "block" ->
             broadcasting_start_locks \o block_download_locks \o save_block_locks
      [] op = "handle_node_connection" -> handle_node_connection_locks
      [] op = "CreateNewTransaction" -> create_and_broadcast_tx_locks
      [] op = "AddAccount" -> add_account_to_wallet_locks
      [] op = "AccountChanged" -> change_account_locks
      [] op = "process_hash_and_download" -> process_hash_and_download_locks
      [] OTHER -> <<>>

\* The step a thread is at; an idle thread is at none.
Instr(t) ==
    IF lprog[t] # "idle" /\ lidx[t] <= Len(StepsOf(lprog[t]))
    THEN StepsOf(lprog[t])[lidx[t]]
    ELSE <<"none", "">>

Holds(t) == {m \in Mutexes : lheld[m] = t}

\* The thread moves past its step, and out of the operation after the last.
Advance(t) ==
    IF lidx[t] >= Len(StepsOf(lprog[t]))
    THEN /\ lprog' = [lprog EXCEPT ![t] = "idle"]
         /\ lidx' = [lidx EXCEPT ![t] = 1]
    ELSE /\ lidx' = [lidx EXCEPT ![t] = lidx[t] + 1]
         /\ UNCHANGED lprog

LStart(t, op) ==
    /\ lprog[t] = "idle"
    /\ Holds(t) = {}
    /\ op \in OpsOf(t)
    /\ ljoined <=> t \notin IbdThreads
    /\ lprog' = [lprog EXCEPT ![t] = op]
    /\ lidx' = [lidx EXCEPT ![t] = 1]
    /\ UNCHANGED <<lheld, ljoined>>
    /\ UNCHANGED NotLocks

\* Mutex::lock returns when the mutex is free.
LLock(t) ==
    /\ Instr(t)[1] = "lock"
    /\ lheld[Instr(t)[2]] = "free"
    /\ lheld' = [lheld EXCEPT ![Instr(t)[2]] = t]
    /\ Advance(t)
    /\ UNCHANGED ljoined
    /\ UNCHANGED NotLocks

\* The guard is dropped.
LUnlock(t) ==
    /\ Instr(t)[1] = "unlock"
    /\ lheld' = [lheld EXCEPT ![Instr(t)[2]] = "free"]
    /\ Advance(t)
    /\ UNCHANGED ljoined
    /\ UNCHANGED NotLocks

\* A read or a write on the peer's socket, or a receive on a channel.
LInputOutput(t) ==
    /\ Instr(t)[1] \in {"socket", "recv"}
    /\ Advance(t)
    /\ UNCHANGED <<lheld, ljoined>>
    /\ UNCHANGED NotLocks

\* The read or write fails and ? leaves the operation: every guard of the
\* thread is dropped.
LFails(t) ==
    /\ Instr(t)[1] \in {"socket", "recv"}
    /\ lheld' = [m \in Mutexes |-> IF lheld[m] = t THEN "free" ELSE lheld[m]]
    /\ lprog' = [lprog EXCEPT ![t] = "idle"]
    /\ lidx' = [lidx EXCEPT ![t] = 1]
    /\ UNCHANGED ljoined
    /\ UNCHANGED NotLocks

\* download_headers_and_blocks returns once the pool of IBD workers is
\* joined; broadcast then starts the listeners and the wallet's threads.
LJoin ==
    /\ ~ljoined
    /\ \A t \in IbdThreads : lprog[t] = "idle"
    /\ ljoined' = TRUE
    /\ UNCHANGED <<lheld, lprog, lidx>>
    /\ UNCHANGED NotLocks

NextLocks ==
    \/ \E t \in LThreads, op \in {"tx", "block", "handle_node_connection",
           "CreateNewTransaction", "AddAccount", "AccountChanged",
           "process_hash_and_download"} : LStart(t, op)
    \/ \E t \in LThreads : LLock(t)
    \/ \E t \in LThreads : LUnlock(t)
    \/ \E t \in LThreads : LInputOutput(t)
    \/ \E t \in LThreads : LFails(t)
    \/ LJoin

SpecLocks == Init /\ [][NextLocks]_vars

\* C34: no lock is held across socket I/O: a thread that is reading or
\* writing a peer socket holds none of the five mutexes.
C34_NoLockAcrossSocketIO ==
    \A t \in LThreads : Instr(t)[1] = "socket" => Holds(t) = {}

\* The UI thread broadcasts a transaction while the wallet thread holds the
\* wallet mutex the UI thread has released.
C34_Witness ==
    /\ Instr("ui")[1] = "socket"
    /\ lheld["wallet"] = "node"

\* A thread waits when it is at a lock step whose mutex is held.
WaitsFor(t) == IF Instr(t)[1] = "lock" THEN lheld[Instr(t)[2]] ELSE "free"

\* C36: the system never deadlocks on its locks: no set of threads waits
\* cyclically on the five mutexes, each waiting for a mutex held by a thread
\* of the set.
C36_NoCyclicWait ==
    \A S \in SUBSET LThreads :
        S # {} => \E t \in S : WaitsFor(t) \notin S

\* The wallet thread waits for the UI thread, which holds the wallet mutex
\* and waits for the index held by a listener.
C36_Witness ==
    /\ WaitsFor("node") = "ui"
    /\ WaitsFor("ui") = "listener1"
    /\ Holds("ui") = {"wallet"}

====
